---- MODULE Spec2Model ----
(***************************************************************************)
(* add-nest-auth: the safe-mutation subsystem.                             *)
(*                                                                         *)
(*   FileWriter / Generator      src/src/generator/{file-writer,generator} *)
(*   AppModuleUpdater            src/src/installer/ast-updater.ts          *)
(*   MainTsUpdater               src/src/installer/main-ts-updater.ts      *)
(*   PackageUpdater              src/unnamed/part_008                      *)
(*   GuiOrchestrator             src/src/gui/orchestrator.ts               *)
(*   GuiServer                   src/unnamed/part_006                      *)
(*                                                                         *)
(* The disk is a function from paths to file contents.  Every content is a *)
(* record with a tag k, so that contents of different shapes compare.      *)
(***************************************************************************)
EXTENDS Naturals, Integers, Sequences, FiniteSets, TLC

VARIABLES
  fs,            \* the disk: path -> content, Absent when there is no file
  dirs,          \* the directories that exist below the project root
  writtenFiles,  \* FileWriter.writtenFiles (file-writer.ts:14)
  backups,       \* FileWriter.backups (file-writer.ts:15): original path -> backup path
  call,          \* the last operation that ran, its arguments and its outcome
  snap,          \* what the disk held at the points the properties refer to
  upd,           \* the updater object in flight (AppModule / MainTs / Package)
  pipe,          \* GuiOrchestrator.generate: position, result, events
  srv,           \* GuiServer: isGenerating and the handlers in flight
  mrg            \* input and output of the array merge, the import editor, the body injector

vars == <<fs, dirs, writtenFiles, backups, call, snap, upd, pipe, srv, mrg>>

----------------------------------------------------------------------------
(* Bounds *)

MaxWrites == 3      \* calls of writeFile on one FileWriter
MaxRuns   == 2      \* runs of Generator.generate on one Generator

----------------------------------------------------------------------------
(* Paths and contents *)

Absent  == [k |-> "absent"]
Text(v) == [k |-> "text", v |-> v]
Partial == [k |-> "partial"]            \* a file a failed write left truncated

Backup(p) == p \o ".backup"

\* Output paths of the generation plan that the model keeps: the first entry,
\* one conditional entry (rbac) and one entry of the project root.
AuthModuleTs == "src/auth/auth.module.ts"
RolesGuardTs == "src/auth/guards/roles.guard.ts"
DotEnv       == ".env"
PlanFiles    == {AuthModuleTs, RolesGuardTs, DotEnv}

AppModulePath   == "src/app.module.ts"
MainTsPath      == "src/main.ts"
PackageJsonPath == "package.json"
TargetFiles     == {AppModulePath, MainTsPath, PackageJsonPath}

ProjectFiles == PlanFiles \cup TargetFiles
AllPaths     == ProjectFiles \cup {Backup(p) : p \in ProjectFiles}

\* path.dirname and its ancestors below the project root ("src" and the root
\* exist in every project that has src/app.module.ts).
Ancestors(p) ==
  CASE p = AuthModuleTs -> {"src/auth"}
    [] p = Backup(AuthModuleTs) -> {"src/auth"}
    [] p = RolesGuardTs -> {"src/auth", "src/auth/guards"}
    [] p = Backup(RolesGuardTs) -> {"src/auth", "src/auth/guards"}
    [] OTHER -> {}

AllDirs == {"src/auth", "src/auth/guards"}

pathExists(disk, p) == disk[p] # Absent

EmptyMap == [x \in {} |-> ""]
MapSet(m, key, v) == [x \in (DOMAIN m) \cup {key} |-> IF x = key THEN v ELSE m[x]]
MapHas(m, key) == key \in DOMAIN m

\* fs.copy(src, dest, {overwrite: true}) and fs.remove(p) on files
Copy(disk, src, dest) == [disk EXCEPT ![dest] = disk[src]]
Remove(disk, p) == [disk EXCEPT ![p] = Absent]

----------------------------------------------------------------------------
(* AuthConfig, as far as the code under study reads it *)

Orms == {"none", "typeorm", "prisma"}
Databases == {"postgres", "sqlite"}
Configs == [orm : Orms, database : Databases, refreshTokens : BOOLEAN,
            rbac : BOOLEAN, autoInstall : BOOLEAN]

----------------------------------------------------------------------------
(* FileWriter: a writer's state is W = [fs, dirs, writtenFiles, backups] *)

World == [fs |-> fs, dirs |-> dirs, writtenFiles |-> writtenFiles, backups |-> backups]

FileWriter_createBackup(W, filePath) ==
  [W EXCEPT !.fs = Copy(W.fs, filePath, Backup(filePath)),
            !.backups = MapSet(W.backups, filePath, Backup(filePath))]

\* writeFile with the conflict test moved behind the backup and the write
writeFile_late_check(W, filePath, content, overwrite, backup) ==
  LET exists == pathExists(W.fs, filePath)
      W1 == IF exists /\ backup THEN FileWriter_createBackup(W, filePath) ELSE W
      W2 == [W1 EXCEPT !.dirs = @ \cup Ancestors(filePath)]
      W3 == [W2 EXCEPT !.fs = [@ EXCEPT ![filePath] = content]]
  IN  IF exists /\ ~overwrite
        THEN [w |-> W3, threw |-> TRUE]
        ELSE [w |-> [W3 EXCEPT !.writtenFiles = Append(@, filePath)], threw |-> FALSE]

\* writeFile that does not track the path it wrote
writeFile_untracked(W, filePath, content, overwrite, backup) ==
  LET exists == pathExists(W.fs, filePath) IN
  IF exists /\ ~overwrite
    THEN [w |-> W, threw |-> TRUE]
    ELSE LET W1 == IF exists /\ backup THEN FileWriter_createBackup(W, filePath) ELSE W
             W2 == [W1 EXCEPT !.dirs = @ \cup Ancestors(filePath)]
         IN  [w |-> [W2 EXCEPT !.fs = [@ EXCEPT ![filePath] = content]], threw |-> FALSE]

writeFile(W, filePath, content, overwrite, backup) ==
  LET exists == pathExists(W.fs, filePath) IN
  IF exists /\ ~overwrite
    THEN [w |-> W, threw |-> TRUE]
    ELSE LET W1 == IF exists /\ backup THEN FileWriter_createBackup(W, filePath) ELSE W
             W2 == [W1 EXCEPT !.dirs = @ \cup Ancestors(filePath)]
             W3 == [W2 EXCEPT !.fs = [@ EXCEPT ![filePath] = content]]
         IN  [w |-> [W3 EXCEPT !.writtenFiles = Append(@, filePath)], threw |-> FALSE]

InSeq(s, x) == \E i \in 1..Len(s) : s[i] = x

\* The two loops of rollback.  The original paths of the map are distinct and no
\* backup path is an original path, so the order of iteration does not matter.
rollback(W) ==
  LET restorable == {o \in DOMAIN W.backups : pathExists(W.fs, W.backups[o])}
      disk1 == [p \in DOMAIN W.fs |->
                  IF p \in restorable THEN W.fs[W.backups[p]]
                  ELSE IF \E o \in restorable : W.backups[o] = p THEN Absent
                  ELSE W.fs[p]]
      disk2 == [p \in DOMAIN W.fs |->
                  IF InSeq(W.writtenFiles, p) /\ ~MapHas(W.backups, p) /\ pathExists(disk1, p)
                    THEN Absent ELSE disk1[p]]
  IN  [W EXCEPT !.fs = disk2, !.writtenFiles = <<>>, !.backups = EmptyMap]

cleanupBackups(W) ==
  LET baks == {W.backups[o] : o \in DOMAIN W.backups} IN
  [W EXCEPT !.fs = [p \in DOMAIN W.fs |-> IF p \in baks THEN Absent ELSE W.fs[p]],
            !.backups = EmptyMap]

getWrittenFiles(W) == W.writtenFiles

\* generator.ts:67 calls FileWriter.getSkippedFiles, which file-writer.ts does not
\* have; spec.md 4.2 gives the writer a "skipped" list for tolerated conflicts,
\* and writeFile never tolerates one.
getSkippedFiles(W) == <<>>

----------------------------------------------------------------------------
(* Generator *)

\* The plan keeps one unconditional entry of src/auth, the conditional rbac
\* guard and one entry of the project root, in the order of the source.
buildGenerationPlan(config) ==
  <<AuthModuleTs>> \o (IF config.rbac THEN <<RolesGuardTs>> ELSE <<>>) \o <<DotEnv>>

\* TemplateEngine.render: the text of a template, or a throw when the template
\* file is missing (template-engine.ts:78); which templates are missing is an input.
Rendered == Text("rendered")

RECURSIVE generate_loop(_, _, _, _, _)
generate_loop(W, plan, i, overwrite, missingTemplates) ==
  IF i > Len(plan) THEN [w |-> W, threw |-> FALSE]
  ELSE IF plan[i] \in missingTemplates THEN [w |-> W, threw |-> TRUE]
  ELSE LET r == writeFile(W, plan[i], Rendered, overwrite, TRUE) IN
       IF r.threw THEN r
       ELSE generate_loop(r.w, plan, i + 1, overwrite, missingTemplates)

\* generate whose catch block returns without calling rollback
generate_no_rollback(W, config, overwrite, missingTemplates) ==
  LET r == generate_loop(W, buildGenerationPlan(config), 1, overwrite, missingTemplates) IN
  IF r.threw
    THEN [w |-> r.w, mid |-> r.w,
          result |-> [filesCreated |-> <<>>, filesSkipped |-> <<>>, success |-> FALSE]]
    ELSE [w |-> cleanupBackups(r.w), mid |-> r.w,
          result |-> [filesCreated |-> getWrittenFiles(r.w),
                      filesSkipped |-> getSkippedFiles(r.w), success |-> TRUE]]

\* mid is the writer's state when the loop ended, before rollback or cleanup
generate(W, config, overwrite, missingTemplates) ==
  LET r == generate_loop(W, buildGenerationPlan(config), 1, overwrite, missingTemplates) IN
  IF r.threw
    THEN [w |-> rollback(r.w), mid |-> r.w,
          result |-> [filesCreated |-> <<>>, filesSkipped |-> <<>>, success |-> FALSE]]
    ELSE [w |-> cleanupBackups(r.w), mid |-> r.w,
          result |-> [filesCreated |-> getWrittenFiles(r.w),
                      filesSkipped |-> getSkippedFiles(r.w), success |-> TRUE]]

----------------------------------------------------------------------------
(* Initial disks *)

Unused == [k |-> "unused"]

DirsConsistent(disk, d) ==
  /\ \A p \in DOMAIN disk : pathExists(disk, p) => Ancestors(p) \subseteq d
  /\ "src/auth/guards" \in d => "src/auth" \in d

\* A project before a run: any plan output may be there already.
PlanDisks ==
  {[p \in AllPaths |-> IF p \in present THEN Text("old") ELSE Absent] :
     present \in SUBSET PlanFiles}

SetWorld(W) ==
  /\ fs' = W.fs
  /\ dirs' = W.dirs
  /\ writtenFiles' = W.writtenFiles
  /\ backups' = W.backups

SeqToSet(s) == {s[i] : i \in 1..Len(s)}

----------------------------------------------------------------------------
(* SpecWriter: one FileWriter driven through its public methods *)

WriteContents == {Text("v1"), Text("v2")}

\* the paths the writer is called on: one below src/auth, one in the project root
WriterFiles == {AuthModuleTs, DotEnv}

InitWriter ==
  /\ fs \in {disk \in PlanDisks : \A p \in PlanFiles \ WriterFiles : disk[p] = Absent}
  /\ dirs \in {d \in SUBSET AllDirs : DirsConsistent(fs, d)}
  /\ writtenFiles = <<>>
  /\ backups = EmptyMap
  /\ call = [op |-> "new"]
  /\ snap = [fs0 |-> fs, fresh |-> TRUE]
  /\ upd = Unused /\ pipe = Unused /\ srv = Unused /\ mrg = Unused

\* snap.fs0 is the disk when the writer was last empty (constructed, or rolled
\* back); snap.fresh says that since construction the writer has only seen
\* writeFile with the default backup option and rollback.
W_writeFile(filePath, content, overwrite, backup) ==
  /\ Len(writtenFiles) < MaxWrites
  /\ LET r == writeFile(World, filePath, content, overwrite, backup) IN
       /\ SetWorld(r.w)
       /\ call' = [op |-> "writeFile", path |-> filePath, overwrite |-> overwrite,
                   backup |-> backup, existed |-> pathExists(fs, filePath),
                   threw |-> r.threw]
  /\ snap' = [snap EXCEPT !.fresh = @ /\ backup]
  /\ UNCHANGED <<upd, pipe, srv, mrg>>

W_rollback ==
  /\ call.op # "rollback"
  /\ SetWorld(rollback(World))
  /\ call' = [op |-> "rollback", wrote |-> SeqToSet(writtenFiles), base |-> snap.fs0,
              fresh |-> snap.fresh]
  /\ snap' = [snap EXCEPT !.fs0 = rollback(World).fs]
  /\ UNCHANGED <<upd, pipe, srv, mrg>>

W_cleanupBackups ==
  /\ call.op # "cleanupBackups"
  /\ SetWorld(cleanupBackups(World))
  /\ call' = [op |-> "cleanupBackups"]
  /\ snap' = [snap EXCEPT !.fresh = FALSE]
  /\ UNCHANGED <<upd, pipe, srv, mrg>>

NextWriter ==
  \/ \E p \in WriterFiles, c \in WriteContents, o \in BOOLEAN, b \in BOOLEAN :
       W_writeFile(p, c, o, b)
  \/ W_rollback
  \/ W_cleanupBackups

SpecWriter == InitWriter /\ [][NextWriter]_vars

\* C2: a writeFile call on a path that exists, with overwrite=false, throws and
\* changes nothing: the disk (the file's content, no ".backup" sidecar), the
\* directories, the written list and the backup map are as before the call.
C2_ConflictNeverWrites ==
  [][(call'.op = "writeFile" /\ call'.existed /\ ~call'.overwrite)
       => /\ call'.threw
          /\ fs' = fs
          /\ dirs' = dirs
          /\ writtenFiles' = writtenFiles
          /\ backups' = backups]_vars

C2_Witness ==
  /\ call.op = "writeFile"
  /\ call.existed /\ ~call.overwrite /\ call.threw
  /\ call.backup
  /\ fs[call.path] # Absent
  /\ Len(writtenFiles) > 0

\* C6: after any sequence of writeFile calls with the default backup option on
\* an empty writer, rollback puts every written path back in its state before
\* the first of those writes, and the writer holds no backup record.
C6_RollbackRestoresEveryWrite ==
  (call.op = "rollback" /\ call.fresh)
    => /\ \A p \in call.wrote : fs[p] = call.base[p]
       /\ backups = EmptyMap
       /\ writtenFiles = <<>>

\* C33: rollback never deletes a file that existed before the writer first
\* wrote it: a path the writer wrote that held a file when the writer was
\* empty still holds a file after rollback, whatever the overwrite and backup
\* options of the writes were.
C33_RollbackNeverDeletesExisting ==
  call.op = "rollback"
    => \A p \in call.wrote : call.base[p] # Absent => fs[p] # Absent

----------------------------------------------------------------------------
(* SpecGen: runs of Generator.generate, on one Generator or on a new one *)

None == [k |-> "none"]

GenConfigs ==
  {c \in Configs : c.orm = "none" /\ c.database = "postgres"
                   /\ ~c.refreshTokens /\ ~c.autoInstall}

MissingTemplates == {{}} \cup {{p} : p \in PlanFiles}

InitGen ==
  /\ fs \in PlanDisks
  /\ dirs \in {d \in SUBSET AllDirs : DirsConsistent(fs, d)}
  /\ writtenFiles = <<>>
  /\ backups = EmptyMap
  /\ call = [op |-> "new"]
  /\ snap = [runs |-> 0, committed |-> [p \in PlanFiles |-> None]]
  /\ upd = Unused /\ pipe = Unused /\ srv = Unused /\ mrg = Unused

\* snap.committed[p] is the content a successful run of this Generator gave p
\* (None when no such run wrote p); call.pre is the disk before the run.
G_generate(config, overwrite, missingTemplates) ==
  /\ snap.runs < MaxRuns
  /\ LET r == generate(World, config, overwrite, missingTemplates)
         wrote == {r.mid.writtenFiles[i] :
                     i \in (Len(writtenFiles) + 1)..Len(r.mid.writtenFiles)}
     IN /\ SetWorld(r.w)
        /\ call' = [op |-> "generate", overwrite |-> overwrite,
                    plan |-> buildGenerationPlan(config), missing |-> missingTemplates,
                    result |-> r.result, success |-> r.result.success,
                    wrote |-> wrote, pre |-> fs,
                    sidecars |-> {r.mid.backups[o] : o \in DOMAIN r.mid.backups}]
        /\ snap' = [runs |-> snap.runs + 1,
                    committed |->
                      IF r.result.success
                        THEN [p \in PlanFiles |->
                                IF p \in wrote THEN r.w.fs[p] ELSE snap.committed[p]]
                        ELSE snap.committed]
  /\ UNCHANGED <<upd, pipe, srv, mrg>>

\* "new Generator()" before a run (orchestrator.ts:103, part_009:93)
G_newGenerator ==
  /\ call.op # "new"
  /\ writtenFiles' = <<>>
  /\ backups' = EmptyMap
  /\ call' = [op |-> "new"]
  /\ snap' = [runs |-> 0, committed |-> [p \in PlanFiles |-> None]]
  /\ UNCHANGED <<fs, dirs, upd, pipe, srv, mrg>>

NextGen ==
  \/ \E c \in GenConfigs, o \in BOOLEAN, m \in MissingTemplates : G_generate(c, o, m)
  \/ G_newGenerator

SpecGen == InitGen /\ [][NextGen]_vars

\* C3: when generate fails at some plan entry, every file the run wrote before
\* the failure is as it was before the run (absent if it was new, its previous
\* content if it was overwritten), and the result is success=false with
\* filesCreated empty.
C3_GenerateAllOrNothing ==
  (call.op = "generate" /\ ~call.success)
    => /\ \A p \in call.wrote : fs[p] = call.pre[p]
       /\ call.result.filesCreated = <<>>

C3_Witness ==
  /\ call.op = "generate" /\ ~call.success
  /\ \E p \in call.wrote : call.pre[p] = Absent
  /\ \E p \in call.wrote : call.pre[p] = Text("old")

\* C7: a failing run on a Generator that committed an earlier run leaves every
\* file of the earlier run with the content that run gave it.
C7_NoLeakBetweenRuns ==
  (call.op = "generate" /\ ~call.success)
    => \A p \in PlanFiles : snap.committed[p] # None => fs[p] = snap.committed[p]

----------------------------------------------------------------------------
(* Source text of an array element                                         *)
(*                                                                         *)
(* The text of an expression is a sequence of symbols.  A word symbol is a *)
(* run of \w characters; adjacent word symbols form one identifier         *)
(* (<<"AuthModule", "X">> is the identifier AuthModuleX).  Every other     *)
(* symbol is a character that \w does not match.                           *)

MaxElems == 2       \* elements of the imports array before the merge

NonWord == {".", "(", ")", ",", "[", "]", "...", " ", "=", ";"}
IsWord(sym) == sym \notin NonWord

\* text.match(/^(\w+)/): the longest prefix of word characters, <<>> for no match
RECURSIVE MatchLeadingWord(_)
MatchLeadingWord(text) ==
  IF text = <<>> \/ ~IsWord(Head(text)) THEN <<>>
  ELSE <<Head(text)>> \o MatchLeadingWord(Tail(text))

\* a test by text.includes(name) in place of the anchored match
getExistingModuleNames_includes(elements) ==
  UNION {{<<elements[i][j]>> : j \in 1..Len(elements[i])} : i \in 1..Len(elements)}

\* a reading that finds no name
getExistingModuleNames_none(elements) == {}

getExistingModuleNames(elements) ==
  {MatchLeadingWord(elements[i]) : i \in 1..Len(elements)} \ {<<>>}

ConfigModuleForRoot == <<"ConfigModule", ".", "forRoot", "(", "isGlobalTrue", ")">>

buildTypeOrmConfig(database, entities) ==
  <<"TypeOrmModule", ".", "forRoot", "(">>
    \o (IF database = "sqlite" THEN <<"sqlite">>
        ELSE IF database = "mysql" THEN <<"mysql">>
        ELSE <<"postgres">>)
    \o <<",", "entities", "[">> \o entities \o <<"]", ",", "synchronize", ")">>

\* `[\n${elements joined by ",\n"},\n  ]`, without the white space
RECURSIVE JoinElements(_)
JoinElements(elements) ==
  IF elements = <<>> THEN <<>>
  ELSE IF Len(elements) = 1 THEN Head(elements)
  ELSE Head(elements) \o <<",">> \o JoinElements(Tail(elements))

multiLineArray(allElements) == <<"[">> \o JoinElements(allElements) \o <<",", "]">>

\* The parser's reading of an array literal: the elements are the stretches
\* between the commas outside every bracket; a comma may follow the last one.
RECURSIVE SplitElements(_, _, _, _)
SplitElements(text, i, depth, current) ==
  IF i > Len(text) THEN (IF current = <<>> THEN <<>> ELSE <<current>>)
  ELSE IF text[i] = "," /\ depth = 0
         THEN <<current>> \o SplitElements(text, i + 1, depth, <<>>)
  ELSE IF text[i] \in {"(", "["}
         THEN SplitElements(text, i + 1, depth + 1, Append(current, text[i]))
  ELSE IF text[i] \in {")", "]"}
         THEN SplitElements(text, i + 1, depth - 1, Append(current, text[i]))
  ELSE SplitElements(text, i + 1, depth, Append(current, text[i]))

ParseArrayLiteral(text) == SplitElements(SubSeq(text, 2, Len(text) - 1), 1, 0, <<>>)

----------------------------------------------------------------------------
(* app.module.ts as ts-morph sees it *)

\* imports: the import declarations; klass: class AppModule exists; decorator:
\* it carries @Module; arg: the decorator's first argument; prop: the property
\* named imports of that object; init: its initializer; elements: the texts
\* of the array's elements.
AppModuleFile(imports, klass, decorator, arg, prop, init, elements) ==
  [k |-> "appmodule", imports |-> imports, klass |-> klass, decorator |-> decorator,
   arg |-> arg, prop |-> prop, init |-> init, elements |-> elements]

Min(S) == CHOOSE x \in S : \A y \in S : x <= y

\* every requested name added to an existing declaration, bound or not
addImport_no_filter(imports, moduleSpecifier, namedImports) ==
  LET found == {i \in 1..Len(imports) : imports[i].mod = moduleSpecifier} IN
  IF found # {}
    THEN [imports EXCEPT ![Min(found)].names = @ \o namedImports]
    ELSE Append(imports, [mod |-> moduleSpecifier, names |-> namedImports])

\* a new declaration in front of the existing ones
addImport_front(imports, moduleSpecifier, namedImports) ==
  LET found == {i \in 1..Len(imports) : imports[i].mod = moduleSpecifier} IN
  IF found # {}
    THEN LET i == Min(found)
             missingImports == SelectSeq(namedImports,
                                 LAMBDA name : ~InSeq(imports[i].names, name))
         IN  [imports EXCEPT ![i].names = @ \o missingImports]
    ELSE <<[mod |-> moduleSpecifier, names |-> namedImports]>> \o imports

\* addImport of ast-updater.ts:295 and of main-ts-updater.ts:77 (the same text)
addImport(imports, moduleSpecifier, namedImports) ==
  LET found == {i \in 1..Len(imports) : imports[i].mod = moduleSpecifier} IN
  IF found # {}
    THEN LET i == Min(found)
             existingNames == imports[i].names
             missingImports == SelectSeq(namedImports, LAMBDA name : ~InSeq(existingNames, name))
         IN  IF Len(missingImports) > 0
               THEN [imports EXCEPT ![i].names = @ \o missingImports]
               ELSE imports
    ELSE Append(imports, [mod |-> moduleSpecifier, names |-> namedImports])

\* the refresh-token entity imported whenever the orm is typeorm
AppModuleUpdater_addImports_refresh_always(imports, config) ==
  LET i1 == addImport(imports, "@nestjs/config", <<"ConfigModule">>)
      i2 == IF config.orm = "typeorm"
              THEN LET a == addImport(i1, "@nestjs/typeorm", <<"TypeOrmModule">>)
                       b == addImport(a, "./users/entities/user.entity", <<"User">>)
                   IN  addImport(b, "./users/entities/refresh-token.entity",
                                 <<"RefreshToken">>)
            ELSE IF config.orm = "prisma"
              THEN addImport(i1, "./prisma/prisma.module", <<"PrismaModule">>)
            ELSE i1
      i3 == addImport(i2, "./auth/auth.module", <<"AuthModule">>)
  IN  addImport(i3, "./users/users.module", <<"UsersModule">>)

AppModuleUpdater_addImports(imports, config) ==
  LET i1 == addImport(imports, "@nestjs/config", <<"ConfigModule">>)
      i2 == IF config.orm = "typeorm"
              THEN LET a == addImport(i1, "@nestjs/typeorm", <<"TypeOrmModule">>)
                       b == addImport(a, "./users/entities/user.entity", <<"User">>)
                   IN  IF config.refreshTokens
                         THEN addImport(b, "./users/entities/refresh-token.entity",
                                        <<"RefreshToken">>)
                         ELSE b
            ELSE IF config.orm = "prisma"
              THEN addImport(i1, "./prisma/prisma.module", <<"PrismaModule">>)
            ELSE i1
      i3 == addImport(i2, "./auth/auth.module", <<"AuthModule">>)
  IN  addImport(i3, "./users/users.module", <<"UsersModule">>)

\* the candidates in front of the existing elements
mergeElements_prepend(existingElements, config) ==
  LET existingModules == getExistingModuleNames(existingElements)
      e1 == IF <<"ConfigModule">> \notin existingModules
              THEN <<ConfigModuleForRoot>> ELSE <<>>
      e2 == IF <<"AuthModule">> \notin existingModules
              THEN Append(e1, <<"AuthModule">>) ELSE e1
      e3 == IF <<"UsersModule">> \notin existingModules
              THEN Append(e2, <<"UsersModule">>) ELSE e2
  IN  e3 \o existingElements

\* ast-updater.ts:370-401: allElements
mergeElements(existingElements, config) ==
  LET existingModules == getExistingModuleNames(existingElements)
      e0 == existingElements
      e1 == IF <<"ConfigModule">> \notin existingModules
              THEN Append(e0, ConfigModuleForRoot) ELSE e0
      e2 == IF config.orm = "typeorm" /\ <<"TypeOrmModule">> \notin existingModules
              THEN Append(e1, buildTypeOrmConfig(config.database,
                     IF config.refreshTokens THEN <<"User", ",", "RefreshToken">>
                                             ELSE <<"User">>))
            ELSE IF config.orm = "prisma" /\ <<"PrismaModule">> \notin existingModules
              THEN Append(e1, <<"PrismaModule">>)
            ELSE e1
      e3 == IF <<"AuthModule">> \notin existingModules
              THEN Append(e2, <<"AuthModule">>) ELSE e2
      e4 == IF <<"UsersModule">> \notin existingModules
              THEN Append(e3, <<"UsersModule">>) ELSE e3
  IN  e4

Threw(msg) == [threw |-> TRUE, error |-> msg]
Returned(file) == [threw |-> FALSE, file |-> file]

\* without the creation of a missing imports property
addModulesToDecorator_no_create(file, config) ==
  IF ~file.klass THEN Threw("AppModule class not found")
  ELSE IF ~file.decorator THEN Threw("@Module decorator not found")
  ELSE IF file.arg # "object" THEN Threw("Invalid @Module decorator structure")
  ELSE IF file.prop # "assignment" THEN Threw("Invalid imports property")
  ELSE IF file.init # "array" THEN Threw("imports is not an array")
  ELSE Returned([file EXCEPT !.elements =
         ParseArrayLiteral(multiLineArray(mergeElements(file.elements, config)))])

\* a file of unexpected structure left as it is, without a throw
addModulesToDecorator_lenient(file, config) ==
  IF \/ ~file.klass \/ ~file.decorator \/ file.arg # "object"
     \/ (file.prop # "missing" /\ (file.prop # "assignment" \/ file.init # "array"))
    THEN Returned(file)
  ELSE Returned([file EXCEPT
         !.prop = "assignment", !.init = "array",
         !.elements = ParseArrayLiteral(multiLineArray(mergeElements(file.elements, config)))])

addModulesToDecorator(file, config) ==
  IF ~file.klass THEN Threw("AppModule class not found")
  ELSE IF ~file.decorator THEN Threw("@Module decorator not found")
  ELSE IF file.arg # "object" THEN Threw("Invalid @Module decorator structure")
  ELSE LET created == IF file.prop = "missing"
                        THEN [file EXCEPT !.prop = "assignment", !.init = "array",
                                          !.elements = <<>>]
                        ELSE file
       IN  IF created.prop # "assignment" THEN Threw("Invalid imports property")
           ELSE IF created.init # "array" THEN Threw("imports is not an array")
           ELSE Returned([created EXCEPT !.elements =
                  ParseArrayLiteral(multiLineArray(mergeElements(created.elements, config)))])

\* update, lines 244-253: load, addImports, addModulesToDecorator, formatText.
\* formatText changes white space only, which the symbols do not record.
AppModuleUpdater_edit(file, config) ==
  addModulesToDecorator(
    [file EXCEPT !.imports = AppModuleUpdater_addImports(file.imports, config)], config)

----------------------------------------------------------------------------
(* SpecAppModule: the in-memory edit of AppModuleUpdater on one app.module.ts *)

\* Element texts a hand-edited imports array may hold: a candidate's name, a
\* foreign name, a longer identifier that starts with a candidate's name, a
\* spread; bare, or followed by a call.
ElemHeads ==
  {<<"ConfigModule">>, <<"AuthModule">>, <<"UsersModule">>, <<"TypeOrmModule">>,
   <<"PrismaModule">>, <<"CatsModule">>, <<"AuthModule", "Legacy">>,
   <<"...", "AuthModule">>}
ElemTails ==
  {<<>>, <<".", "forRoot", "(", "isGlobalFalse", ")">>,
   <<".", "register", "(", "a", ",", "b", ")">>}
ElemTexts == {h \o t : h \in ElemHeads, t \in ElemTails}

SeqsUpTo(S, n) == UNION {[1..m -> S] : m \in 0..n}

ImportSections ==
  {<<[mod |-> "@nestjs/common", names |-> <<"Module">>]>>,
   <<[mod |-> "@nestjs/common", names |-> <<"Module">>],
     [mod |-> "@nestjs/config", names |-> <<"ConfigService">>]>>}

\* the shapes addModulesToDecorator tells apart
AppModuleShapes ==
  {AppModuleFile(<<>>, TRUE, TRUE, "object", "missing", "none", <<>>),
   AppModuleFile(<<>>, FALSE, FALSE, "none", "missing", "none", <<>>),
   AppModuleFile(<<>>, TRUE, FALSE, "none", "missing", "none", <<>>),
   AppModuleFile(<<>>, TRUE, TRUE, "none", "missing", "none", <<>>),
   AppModuleFile(<<>>, TRUE, TRUE, "other", "missing", "none", <<>>),
   AppModuleFile(<<>>, TRUE, TRUE, "object", "shorthand", "none", <<>>),
   AppModuleFile(<<>>, TRUE, TRUE, "object", "assignment", "other", <<>>)}

\* the import section and the imports array are edited independently of each
\* other: the arrays vary under one import section, the import sections
\* under the arrays of at most one element
AppModuleFiles(maxElems) ==
  {[f EXCEPT !.imports = i] : f \in AppModuleShapes, i \in ImportSections}
  \cup {AppModuleFile(<<[mod |-> "@nestjs/common", names |-> <<"Module">>]>>,
                      TRUE, TRUE, "object", "assignment", "array", e) :
          e \in SeqsUpTo(ElemTexts, maxElems)}
  \cup {AppModuleFile(i, TRUE, TRUE, "object", "assignment", "array", e) :
          i \in ImportSections, e \in SeqsUpTo(ElemTexts, 1)}

\* database and refreshTokens are read in the typeorm branch only
EditConfigs ==
  {c \in Configs : /\ ~c.rbac /\ ~c.autoInstall
                   /\ (c.orm = "typeorm" \/ (c.database = "postgres" /\ ~c.refreshTokens))}

InitAppModule ==
  /\ mrg \in [file : AppModuleFiles(MaxElems), config : EditConfigs, out : {None},
               again : {None}]
  /\ fs = [p \in AllPaths |-> Absent] /\ dirs = {}
  /\ writtenFiles = <<>> /\ backups = EmptyMap
  /\ call = [op |-> "new"] /\ snap = Unused
  /\ upd = Unused /\ pipe = Unused /\ srv = Unused

M_edit ==
  /\ mrg.out = None
  /\ mrg' = [mrg EXCEPT !.out = AppModuleUpdater_edit(mrg.file, mrg.config)]
  /\ UNCHANGED <<fs, dirs, writtenFiles, backups, call, snap, upd, pipe, srv>>

\* update run a second time, with the same config, on what the first run saved
M_editAgain ==
  /\ mrg.out # None /\ ~mrg.out.threw
  /\ mrg.again = None
  /\ mrg' = [mrg EXCEPT !.again = AppModuleUpdater_edit(mrg.out.file, mrg.config)]
  /\ UNCHANGED <<fs, dirs, writtenFiles, backups, call, snap, upd, pipe, srv>>

NextAppModule == M_edit \/ M_editAgain

SpecAppModule == InitAppModule /\ [][NextAppModule]_vars

\* What the claims call the leading identifier of an element: its text up to
\* the first character that cannot be part of a name.
LeadingIdentifier(text) ==
  LET stops == {i \in 1..Len(text) : ~IsWord(text[i])} IN
  IF stops = {} THEN text ELSE SubSeq(text, 1, Min(stops) - 1)

\* the candidates of a config, in the order of the source
Candidates(config) ==
  <<ConfigModuleForRoot>>
    \o (IF config.orm = "typeorm"
          THEN <<buildTypeOrmConfig(config.database,
                   IF config.refreshTokens THEN <<"User", ",", "RefreshToken">>
                                           ELSE <<"User">>)>>
        ELSE IF config.orm = "prisma" THEN <<<<"PrismaModule">>>>
        ELSE <<>>)
    \o <<<<"AuthModule">>, <<"UsersModule">>>>

Merged == mrg.out # None /\ ~mrg.out.threw
ExistingArray == IF mrg.file.prop = "missing" THEN <<>> ELSE mrg.file.elements
ResultArray == mrg.out.file.elements
AppendedPart == SubSeq(ResultArray, Len(ExistingArray) + 1, Len(ResultArray))
Collides(cand) ==
  \E i \in 1..Len(ExistingArray) :
     LeadingIdentifier(ExistingArray[i]) = LeadingIdentifier(cand)
CountLeading(arr, id) == Cardinality({i \in 1..Len(arr) : LeadingIdentifier(arr[i]) = id})

\* C9: a candidate is appended to the imports array if and only if no existing
\* element has its leading identifier; when one has, the existing elements
\* stay verbatim and the array gains no second element with that identifier.
C9_AppendIffLeadingIdentifierAbsent ==
  Merged =>
    /\ Len(ResultArray) >= Len(ExistingArray)
    /\ \A i \in 1..Len(ExistingArray) : ResultArray[i] = ExistingArray[i]
    /\ \A n \in 1..Len(Candidates(mrg.config)) :
         LET cand == Candidates(mrg.config)[n] IN
           /\ InSeq(AppendedPart, cand) <=> ~Collides(cand)
           /\ Collides(cand) =>
                CountLeading(ResultArray, LeadingIdentifier(cand))
                  = CountLeading(ExistingArray, LeadingIdentifier(cand))

C9_Witness ==
  /\ Merged
  /\ \E i \in 1..Len(ExistingArray) :
       /\ LeadingIdentifier(ExistingArray[i]) = <<"ConfigModule">>
       /\ ExistingArray[i] # ConfigModuleForRoot
       /\ Len(ExistingArray[i]) > 1
  /\ \E i \in 1..Len(ExistingArray) :
       LeadingIdentifier(ExistingArray[i]) = <<"AuthModule", "Legacy">>
  /\ InSeq(AppendedPart, <<"AuthModule">>)
  /\ ~InSeq(AppendedPart, ConfigModuleForRoot)

\* C10: the resulting array is the existing elements, unchanged and in their
\* order, followed by the candidates that do not collide, in the order
\* ConfigModule, ORM module, AuthModule, UsersModule.
C10_MergePreservesOrder ==
  Merged =>
    ResultArray = ExistingArray
                    \o SelectSeq(Candidates(mrg.config), LAMBDA cand : ~Collides(cand))

C10_Witness ==
  /\ Merged
  /\ Len(ExistingArray) = 2
  /\ ExistingArray[1] # ExistingArray[2]
  /\ Len(ExistingArray[2]) > 5
  /\ mrg.config.orm = "typeorm"
  /\ Len(AppendedPart) = 4


\* C11: when the decorator object has an empty imports array or no imports
\* property and no ORM module is configured, the edit succeeds and leaves an
\* imports array of exactly ConfigModule.forRoot({ isGlobal: true }),
\* AuthModule, UsersModule in that order; a missing property is created.
EmptyOrMissingImports(file) ==
  /\ file.klass /\ file.decorator /\ file.arg = "object"
  /\ \/ file.prop = "missing"
     \/ file.prop = "assignment" /\ file.init = "array" /\ file.elements = <<>>

C11_EmptyOrMissingGetsTheThree ==
  (mrg.out # None /\ EmptyOrMissingImports(mrg.file) /\ mrg.config.orm = "none") =>
     /\ ~mrg.out.threw
     /\ mrg.out.file.prop = "assignment"
     /\ mrg.out.file.init = "array"
     /\ mrg.out.file.elements = <<ConfigModuleForRoot, <<"AuthModule">>, <<"UsersModule">>>>

C11_Witness ==
  /\ mrg.out # None
  /\ mrg.file.prop = "missing" /\ EmptyOrMissingImports(mrg.file)
  /\ mrg.config.orm = "none"
  /\ ~mrg.out.threw
  /\ Len(mrg.out.file.elements) = 3


\* C12: update is idempotent: when it has succeeded, a second run with the same
\* config succeeds and leaves the import section and the imports array as the
\* first run left them.
C12_UpdateIdempotent ==
  mrg.again # None =>
     /\ ~mrg.again.threw
     /\ mrg.again.file.imports = mrg.out.file.imports
     /\ mrg.again.file.elements = mrg.out.file.elements

C12_Witness ==
  /\ mrg.again # None
  /\ mrg.config.orm = "typeorm"
  /\ Len(mrg.file.elements) = 2
  /\ Len(mrg.out.file.elements) > 3
  /\ Len(mrg.out.file.imports) > Len(mrg.file.imports)


----------------------------------------------------------------------------
(* SpecImports: addImport called again and again on one source file         *)

MaxCalls == 2       \* calls of addImport on one source file

ImportDecl(mod, names) == [mod |-> mod, names |-> names]

\* declarations a source file may hold: two from the same module, one binding
\* several names, one binding none (a default or side-effect import)
ImportDecls ==
  {ImportDecl("@nestjs/core", <<"NestFactory">>),
   ImportDecl("@nestjs/core", <<"Reflector">>),
   ImportDecl("@nestjs/common", <<"Module", "ValidationPipe">>),
   ImportDecl("./auth/guards/jwt-auth.guard", <<>>)}

ImportModules == {"@nestjs/core", "@nestjs/common", "./auth/guards/jwt-auth.guard"}

ImportNames ==
  {<<"Reflector">>, <<"ValidationPipe", "Logger">>, <<"JwtAuthGuard">>,
   <<"Logger", "Logger">>, <<>>}

InitImports ==
  /\ mrg \in [imports : SeqsUpTo(ImportDecls, 2), calls : {<<>>}]
  /\ fs = Unused /\ dirs = Unused /\ writtenFiles = Unused /\ backups = Unused
  /\ call = Unused /\ snap = Unused /\ upd = Unused /\ pipe = Unused /\ srv = Unused

I_addImport(moduleSpecifier, namedImports) ==
  /\ Len(mrg.calls) < MaxCalls
  /\ LET after == addImport(mrg.imports, moduleSpecifier, namedImports) IN
     mrg' = [imports |-> after,
             calls |-> Append(mrg.calls,
                         [mod |-> moduleSpecifier, names |-> namedImports,
                          before |-> mrg.imports, after |-> after])]
  /\ UNCHANGED <<fs, dirs, writtenFiles, backups, call, snap, upd, pipe, srv>>

NextImports ==
  \E moduleSpecifier \in ImportModules, namedImports \in ImportNames :
     I_addImport(moduleSpecifier, namedImports)

SpecImports == InitImports /\ [][NextImports]_vars

SameArguments(c, d) == c.mod = d.mod /\ c.names = d.names

\* C13: addImport called a second time with the same arguments leaves the
\* import section as the first call left it.
C13_AddImportIdempotent ==
  \A i \in 2..Len(mrg.calls) :
     SameArguments(mrg.calls[i - 1], mrg.calls[i]) =>
        mrg.calls[i].after = mrg.calls[i - 1].after

C13_Witness ==
  /\ Len(mrg.calls) = 2
  /\ SameArguments(mrg.calls[1], mrg.calls[2])
  /\ mrg.calls[1].after # mrg.calls[1].before
  /\ \E i \in 1..Len(mrg.calls[1].before) : mrg.calls[1].before[i].mod = mrg.calls[1].mod

\* C14: with a declaration from modulePath, the first such declaration keeps
\* its names and gains the requested names it did not bind, and nothing else
\* changes; with none, one declaration importing exactly the names is appended
\* after the existing ones.  Every other declaration stays as and where it was.
DeclsFrom(imports, mod) == {i \in 1..Len(imports) : imports[i].mod = mod}

AddImportAsSpecified(c) ==
  LET found == DeclsFrom(c.before, c.mod) IN
  IF found # {}
    THEN LET i == Min(found)
             had == c.before[i].names
             has == c.after[i].names
         IN  /\ Len(c.after) = Len(c.before)
             /\ \A j \in 1..Len(c.before) : j # i => c.after[j] = c.before[j]
             /\ c.after[i].mod = c.mod
             /\ Len(has) >= Len(had) /\ SubSeq(has, 1, Len(had)) = had
             /\ SeqToSet(SubSeq(has, Len(had) + 1, Len(has)))
                  = SeqToSet(c.names) \ SeqToSet(had)
    ELSE c.after = c.before \o <<ImportDecl(c.mod, c.names)>>

C14_AddImportContract ==
  \A n \in 1..Len(mrg.calls) : AddImportAsSpecified(mrg.calls[n])

C14_Witness ==
  /\ Len(mrg.calls) = 2
  /\ DeclsFrom(mrg.calls[1].before, mrg.calls[1].mod) = {}
  /\ Len(mrg.calls[1].before) = 2
  /\ Cardinality(DeclsFrom(mrg.calls[2].before, mrg.calls[2].mod)) = 2
  /\ mrg.calls[2].after # mrg.calls[2].before

----------------------------------------------------------------------------
(* main.ts as ts-morph sees it, and MainTsUpdater's edit *)

\* fn: "none" when no function declaration is named bootstrap, "declaration"
\* when it has no body block, "block" otherwise; body: the texts of the
\* top-level statements of the block.
\* imports: the import declarations; fn: what bootstrap is; body: the texts of
\* the top-level statements of its block; comments: the comments in the block
MainTsFile(imports, fn, body, comments) ==
  [k |-> "maints", imports |-> imports, fn |-> fn, body |-> body, comments |-> comments]

\* the import section of a main.ts as nest new writes it
MainTsImports == <<[mod |-> "@nestjs/core", names |-> <<"NestFactory">>]>>

\* text.includes(needle) on symbol sequences
Includes(text, needle) ==
  \E i \in 0..(Len(text) - Len(needle)) :
     \A j \in 1..Len(needle) : text[i + j] = needle[j]

StmtCreate == <<"const", " ", "app", "=", "NestFactory", ".", "create", "(", "AppModule", ")", ";">>
StmtListen == <<"await", " ", "app", ".", "listen", "(", "3000", ")", ";">>
StmtLog    == <<"console", ".", "log", "(", "ready", ")", ";">>

\* the statements codeToInsert parses into (its comment lines are trivia)
StmtPipes     == <<"app", ".", "useGlobalPipes", "(", "new", " ", "ValidationPipe", "(", "options", ")", ")", ";">>
StmtReflector == <<"const", " ", "reflector", "=", "app", ".", "get", "(", "Reflector", ")", ";">>
StmtGuards    == <<"app", ".", "useGlobalGuards", "(", "new", " ", "JwtAuthGuard", "(", "reflector", ")", ")", ";">>
codeToInsert  == <<StmtPipes, StmtReflector, StmtGuards>>

MainTsUpdater_addImports(imports) ==
  LET i1 == addImport(imports, "@nestjs/core", <<"Reflector">>)
      i2 == addImport(i1, "@nestjs/common", <<"ValidationPipe">>)
  IN  addImport(i2, "./auth/guards/jwt-auth.guard", <<"JwtAuthGuard">>)

\* body.getText() includes 'useGlobalGuards' or 'JwtAuthGuard'; the text of a
\* block is its statements and its comments
alreadyConfigured_never(file) == FALSE

alreadyConfigured(file) ==
  \E text \in SeqToSet(file.body) \cup SeqToSet(file.comments) :
     \/ Includes(text, <<"useGlobalGuards">>)
     \/ Includes(text, <<"JwtAuthGuard">>)

\* the index behind the first matching statement
listenIndex_after(statements) ==
  LET matching == {i \in 1..Len(statements) :
                     \/ Includes(statements[i], <<".", "listen", "(">>)
                     \/ Includes(statements[i], <<".", "listen", " ", "(">>)}
  IN  IF matching = {} THEN Len(statements) ELSE Min(matching)

\* the front of the body when no statement matches
listenIndex_front(statements) ==
  LET matching == {i \in 1..Len(statements) :
                     \/ Includes(statements[i], <<".", "listen", "(">>)
                     \/ Includes(statements[i], <<".", "listen", " ", "(">>)}
  IN  IF matching = {} THEN 0 ELSE Min(matching) - 1

\* main-ts-updater.ts:131-145, zero-based as in the source
listenIndex(statements) ==
  LET matching == {i \in 1..Len(statements) :
                     \/ Includes(statements[i], <<".", "listen", "(">>)
                     \/ Includes(statements[i], <<".", "listen", " ", "(">>)}
  IN  IF matching = {} THEN Len(statements) ELSE Min(matching) - 1

\* body.insertStatements(index, code)
insertStatements(body, index, code) ==
  SubSeq(body, 1, index) \o code \o SubSeq(body, index + 1, Len(body))

addGlobalGuardsAndPipes(file) ==
  IF file.fn = "none" THEN Threw("bootstrap function not found in main.ts")
  ELSE IF file.fn # "block" THEN Threw("bootstrap function has no body")
  ELSE IF alreadyConfigured(file) THEN Returned(file)
  ELSE Returned([file EXCEPT !.body =
                   insertStatements(file.body, listenIndex(file.body), codeToInsert)])

MainTsUpdater_edit(file) ==
  addGlobalGuardsAndPipes([file EXCEPT !.imports = MainTsUpdater_addImports(file.imports)])


----------------------------------------------------------------------------
(* SpecMainTs: the in-memory edit of MainTsUpdater, run again and again on  *)
(* what the run before has saved                                            *)

MaxStmts   == 2     \* statements of the bootstrap body before the first run
MaxUpdates == 2     \* runs of MainTsUpdater.update on one main.ts

StmtListenSpaced == <<"await", " ", "app", ".", "listen", " ", "(", "port", ")", ";">>
StmtListenNested ==
  <<"if", "(", "ready", ")", "{", "server", ".", "listen", "(", "3000", ")", ";", "}">>
StmtListenRef    == <<"const", " ", "listen", "=", "app", ".", "listen", ";">>
CommentGuard     == <<"//", " ", "TODO", " ", "JwtAuthGuard">>

BodyStatements ==
  {StmtCreate, StmtListen, StmtLog, StmtListenSpaced, StmtListenNested, StmtListenRef,
   StmtGuards}

MainTsFiles ==
  {MainTsFile(MainTsImports, "block", body, comments) :
     body \in SeqsUpTo(BodyStatements, MaxStmts), comments \in {<<>>, <<CommentGuard>>}}
  \cup {MainTsFile(MainTsImports, "declaration", <<>>, <<>>),
        MainTsFile(MainTsImports, "none", <<>>, <<>>)}

\* file: main.ts before the first run; prev, cur: before and after the last
\* run; n: the runs so far; last: what the last run's edit returned or threw
InitMainTs ==
  /\ mrg \in [file : MainTsFiles, prev : {None}, cur : {None}, n : {0}, last : {None}]
  /\ fs = Unused /\ dirs = Unused /\ writtenFiles = Unused /\ backups = Unused
  /\ call = Unused /\ snap = Unused /\ upd = Unused /\ pipe = Unused /\ srv = Unused

B_update ==
  /\ mrg.n < MaxUpdates
  /\ LET before == IF mrg.n = 0 THEN mrg.file ELSE mrg.cur
         r == MainTsUpdater_edit(before)
     IN  mrg' = [mrg EXCEPT !.prev = before,
                            !.cur = IF r.threw THEN before ELSE r.file,
                            !.n = @ + 1,
                            !.last = r]
  /\ UNCHANGED <<fs, dirs, writtenFiles, backups, call, snap, upd, pipe, srv>>

NextMainTs == B_update

SpecMainTs == InitMainTs /\ [][NextMainTs]_vars

\* the anchor: a statement whose text contains '.listen(' or '.listen ('
IsAnchor(text) ==
  \/ Includes(text, <<".", "listen", "(">>)
  \/ Includes(text, <<".", "listen", " ", "(">>)

HasMarker(file) ==
  \E text \in SeqToSet(file.body) \cup SeqToSet(file.comments) :
     Includes(text, <<"useGlobalGuards">>) \/ Includes(text, <<"JwtAuthGuard">>)

Inserted == mrg.n > 0 /\ ~mrg.last.threw /\ ~HasMarker(mrg.prev)

\* the places of the body where the injected block stands
Copies(body) ==
  {i \in 0..(Len(body) - Len(codeToInsert)) :
     SubSeq(body, i + 1, i + Len(codeToInsert)) = codeToInsert}

\* C16: with a first statement Sk whose text contains the anchor, the new body
\* is S1..S(k-1), the injected block, Sk..Sn.
C16_InsertedBeforeFirstListen ==
  Inserted =>
    \A k \in 1..Len(mrg.prev.body) :
       (IsAnchor(mrg.prev.body[k]) /\ \A j \in 1..(k - 1) : ~IsAnchor(mrg.prev.body[j]))
         => mrg.cur.body = SubSeq(mrg.prev.body, 1, k - 1) \o codeToInsert
                             \o SubSeq(mrg.prev.body, k, Len(mrg.prev.body))

C16_Witness ==
  /\ Inserted
  /\ Len(mrg.prev.body) = 2
  /\ ~IsAnchor(mrg.prev.body[1]) /\ IsAnchor(mrg.prev.body[2])
  /\ Len(mrg.cur.body) = 5

\* C17: with no statement containing the anchor the edit does not throw and
\* the new body is the original statements followed by the injected block.
C17_NoAnchorAppends ==
  (/\ mrg.n > 0 /\ mrg.prev.fn = "block" /\ ~HasMarker(mrg.prev)
   /\ \A k \in 1..Len(mrg.prev.body) : ~IsAnchor(mrg.prev.body[k]))
    => /\ ~mrg.last.threw
       /\ mrg.cur.body = mrg.prev.body \o codeToInsert

C17_Witness ==
  /\ Inserted
  /\ mrg.prev.body = <<StmtCreate, StmtListenRef>>
  /\ Len(mrg.cur.body) = 5

\* C18: a body whose text contains 'useGlobalGuards' or 'JwtAuthGuard' is left
\* as it is, so every run after one that inserted the block leaves exactly one
\* copy of it.
C18_InjectionIdempotent ==
  /\ (mrg.n > 0 /\ mrg.prev.fn = "block" /\ HasMarker(mrg.prev))
       => ~mrg.last.threw /\ mrg.cur.body = mrg.prev.body
  /\ (mrg.n > 0 /\ mrg.file.fn = "block" /\ ~HasMarker(mrg.file))
       => Cardinality(Copies(mrg.cur.body)) = 1

C18_Witness ==
  /\ mrg.n = 2
  /\ ~HasMarker(mrg.file) /\ mrg.file.fn = "block"
  /\ HasMarker(mrg.prev)
  /\ Cardinality(Copies(mrg.cur.body)) = 1

----------------------------------------------------------------------------
(* package.json and PackageUpdater's edit *)

\* An object of package.json is the sequence of its entries in file order.
Dep(key, v) == [key |-> key, v |-> v]
\* a parsed package.json: the two sections update merges into, the
\* indentation of the text, and the fields update does not name
PackageJsonFile(indent, dependencies, devDependencies) ==
  [k |-> "pkg", indent |-> indent, dependencies |-> dependencies,
   devDependencies |-> devDependencies,
   name |-> "project", scripts |-> <<Dep("build", "nest build")>>]
InvalidJson == Text("not json")

\* Array.prototype.sort on the keys the model uses
KeyOrder ==
  <<"@nestjs/common", "@nestjs/core", "@nestjs/jwt", "@nestjs/typeorm", "@types/bcrypt", "jest",
    "mongodb", "mysql2", "passport", "pg", "sqlite3", "typeorm", "zod">>

Keys(obj) == {obj[i].key : i \in 1..Len(obj)}
Lookup(obj, key) == obj[CHOOSE i \in 1..Len(obj) : obj[i].key = key].v

\* { ...b, ...a }: the left operand's versions win
Spread_left_wins(a, b) ==
  a \o SelectSeq(b, LAMBDA e : e.key \notin Keys(a))

\* { ...a, ...b }
Spread(a, b) ==
  [i \in 1..Len(a) |-> IF a[i].key \in Keys(b) THEN Dep(a[i].key, Lookup(b, a[i].key))
                       ELSE a[i]]
    \o SelectSeq(b, LAMBDA e : e.key \notin Keys(a))

sortObject(obj) ==
  LET present == SelectSeq(KeyOrder, LAMBDA key : key \in Keys(obj)) IN
  [i \in 1..Len(present) |-> Dep(present[i], Lookup(obj, present[i]))]

\* getDependencies, with two of the nine fixed dependencies and one of the
\* three fixed devDependencies
getDependencies(config) ==
  [dependencies |->
     <<Dep("@nestjs/jwt", "^11.0.0"), Dep("passport", "^0.7.0")>>
       \o (IF config.orm = "typeorm"
             THEN <<Dep("@nestjs/typeorm", "^11.0.0"), Dep("typeorm", "^0.3.20")>>
                    \o (CASE config.database = "postgres" -> <<Dep("pg", "^8.11.3")>>
                          [] config.database = "mysql" -> <<Dep("mysql2", "^3.9.1")>>
                          [] config.database = "sqlite" -> <<Dep("sqlite3", "^5.1.7")>>
                          [] config.database = "mongodb" -> <<Dep("mongodb", "^6.3.0")>>
                          [] OTHER -> <<>>)
           ELSE <<>>),
   devDependencies |-> <<Dep("@types/bcrypt", "^5.0.2")>>]

\* update, lines 27-50: readJSON, merge, sort; writeJSON formats with 2 spaces
PackageUpdater_edit(file, config) ==
  IF file.k # "pkg" THEN Threw("Unexpected token in JSON")
  ELSE LET deps == getDependencies(config) IN
       Returned([file EXCEPT
         !.dependencies = sortObject(Spread(file.dependencies, deps.dependencies)),
         !.devDependencies = sortObject(Spread(file.devDependencies, deps.devDependencies)),
         !.indent = 2])

----------------------------------------------------------------------------
(* The three updaters: update, createBackup, restoreBackup, cleanupBackup   *)
(*                                                                         *)
(* AppModuleUpdater (ast-updater.ts:238-260, 453-475), MainTsUpdater       *)
(* (main-ts-updater.ts:27-54, 173-195) and PackageUpdater (part_008:21-56, *)
(* 120-142) share the protocol and differ in the edit.  An updater object  *)
(* is [kind, config, pc, backupPath, sourceFile, err, thrown, fault]; pc   *)
(* is the await it stands at.                                              *)

UpdaterKinds == {"app", "main", "pkg"}

Target(kind) ==
  CASE kind = "app" -> AppModulePath
    [] kind = "main" -> MainTsPath
    [] kind = "pkg" -> PackageJsonPath

Edit(kind, file, config) ==
  CASE kind = "app" -> AppModuleUpdater_edit(file, config)
    [] kind = "main" -> MainTsUpdater_edit(file)
    [] kind = "pkg" -> PackageUpdater_edit(file, config)

\* backupPath: string | null = null
NullPath == "null"

NewUpdater(kind, config) ==
  [kind |-> kind, config |-> config, pc |-> "new", backupPath |-> NullPath,
   sourceFile |-> None, err |-> None, thrown |-> None, fault |-> "none"]

\* a step's outcome: the disk and the updater object after it
After(disk, u) == [fs |-> disk, u |-> u]

\* createBackup that records the path and copies nothing
updater_createBackup_no_copy(disk, u) ==
  IF ~pathExists(disk, Target(u.kind))
    THEN After(disk, [u EXCEPT !.pc = "thrown", !.err = Text("ENOENT"),
                               !.thrown = Text("ENOENT")])
    ELSE After(disk, [u EXCEPT !.pc = "try", !.backupPath = Backup(Target(u.kind))])

\* update up to the end of createBackup: the existence test of MainTsUpdater,
\* then backupPath = path + ".backup" and fs.copy, which throws when the
\* target is missing (outside the try block)
updater_createBackup(disk, u) ==
  IF u.kind = "main" /\ ~pathExists(disk, Target(u.kind))
    THEN After(disk, [u EXCEPT !.pc = "thrown", !.err = Text("main.ts not found"),
                               !.thrown = Text("main.ts not found")])
  ELSE IF ~pathExists(disk, Target(u.kind))
    THEN After(disk, [u EXCEPT !.pc = "thrown", !.backupPath = Backup(Target(u.kind)),
                               !.err = Text("ENOENT"), !.thrown = Text("ENOENT")])
  ELSE After(Copy(disk, Target(u.kind), Backup(Target(u.kind))),
             [u EXCEPT !.pc = "try", !.backupPath = Backup(Target(u.kind))])

\* the try block up to the save: load the file and edit it in memory
updater_edit(disk, u) ==
  LET r == Edit(u.kind, disk[Target(u.kind)], u.config) IN
  IF r.threw
    THEN After(disk, [u EXCEPT !.pc = "catch", !.err = Text(r.error)])
    ELSE After(disk, [u EXCEPT !.pc = "save", !.sourceFile = r.file])

\* sourceFile.save() / fs.writeJSON: the write completes, or fails leaving the
\* file as it was, or fails leaving it truncated
SaveFaults == {"none", "failUntouched", "failPartial"}

\* a truncating write that reports success
updater_save_silent(disk, u, fault) ==
  CASE fault = "none" ->
         After([disk EXCEPT ![Target(u.kind)] = u.sourceFile], [u EXCEPT !.pc = "returned"])
    [] fault = "failUntouched" ->
         After(disk, [u EXCEPT !.pc = "catch", !.err = Text("EIO"), !.fault = fault])
    [] fault = "failPartial" ->
         After([disk EXCEPT ![Target(u.kind)] = Partial],
               [u EXCEPT !.pc = "returned", !.fault = fault])

updater_save(disk, u, fault) ==
  CASE fault = "none" ->
         After([disk EXCEPT ![Target(u.kind)] = u.sourceFile], [u EXCEPT !.pc = "returned"])
    [] fault = "failUntouched" ->
         After(disk, [u EXCEPT !.pc = "catch", !.err = Text("EIO"), !.fault = fault])
    [] fault = "failPartial" ->
         After([disk EXCEPT ![Target(u.kind)] = Partial],
               [u EXCEPT !.pc = "catch", !.err = Text("EIO"), !.fault = fault])

\* restoreBackup that deletes the backup without copying it back
restoreBackup_copy_skipped(disk, u) ==
  IF u.backupPath # NullPath /\ pathExists(disk, u.backupPath)
    THEN After(disk, [u EXCEPT !.pc = "restoreRemove"])
    ELSE After(disk, [u EXCEPT !.pc = "thrown", !.thrown = u.err])

\* restoreBackup, first await: the existence test and fs.copy back
restoreBackup_copy(disk, u) ==
  IF u.backupPath # NullPath /\ pathExists(disk, u.backupPath)
    THEN After(Copy(disk, u.backupPath, Target(u.kind)), [u EXCEPT !.pc = "restoreRemove"])
    ELSE After(disk, [u EXCEPT !.pc = "thrown", !.thrown = u.err])

\* restoreBackup, second await: fs.remove; then "throw error"
restoreBackup_remove(disk, u) ==
  After(Remove(disk, u.backupPath), [u EXCEPT !.pc = "thrown", !.thrown = u.err])

\* cleanupBackup that forgets to remove the file
cleanupBackup_keeps(disk, u) == After(disk, [u EXCEPT !.pc = "done"])

cleanupBackup(disk, u) ==
  IF u.backupPath # NullPath /\ pathExists(disk, u.backupPath)
    THEN After(Remove(disk, u.backupPath), [u EXCEPT !.pc = "done"])
    ELSE After(disk, [u EXCEPT !.pc = "done"])

\* the value of an expression, evaluated once
Only(S) == CHOOSE x \in S : TRUE

\* update() from call to return or throw, with the save's outcome as input
update(disk, kind, config, fault) ==
  LET restore(s) ==
        Only({IF c.u.pc = "restoreRemove" THEN restoreBackup_remove(c.fs, c.u) ELSE c :
                c \in {restoreBackup_copy(s.fs, s.u)}})
      save(s2) ==
        Only({IF s3.u.pc = "catch" THEN restore(s3) ELSE s3 :
                s3 \in {updater_save(s2.fs, s2.u, fault)}})
      edit(s1) ==
        Only({IF s2.u.pc = "catch" THEN restore(s2) ELSE save(s2) :
                s2 \in {updater_edit(s1.fs, s1.u)}})
  IN  Only({IF s1.u.pc = "thrown" THEN s1 ELSE edit(s1) :
              s1 \in {updater_createBackup(disk, NewUpdater(kind, config))}})

----------------------------------------------------------------------------
(* SpecUpdater: updater objects run one after another on a project, each   *)
(* stepping through its awaits                                             *)

AppModuleSamples ==
  {[f EXCEPT !.imports = <<[mod |-> "@nestjs/common", names |-> <<"Module">>]>>] :
     f \in AppModuleShapes}
  \cup {AppModuleFile(<<[mod |-> "@nestjs/common", names |-> <<"Module">>]>>,
                      TRUE, TRUE, "object", "assignment", "array", e) :
          e \in {<<>>, <<<<"ConfigModule", ".", "forRoot", "(", "isGlobalFalse", ")">>>>}}

MainTsSamples ==
  {MainTsFile(MainTsImports, "block", <<StmtCreate, StmtListen, StmtLog>>, <<>>),
   MainTsFile(MainTsImports, "block", <<StmtCreate>>, <<>>),
   MainTsFile(MainTsImports, "block", <<StmtCreate, StmtGuards, StmtListen>>, <<>>),
   MainTsFile(MainTsImports, "declaration", <<>>, <<>>),
   MainTsFile(MainTsImports, "none", <<>>, <<>>)}

PackageJsonSamples ==
  {PackageJsonFile(2, <<Dep("@nestjs/core", "^11.0.0")>>, <<Dep("jest", "^29.0.0")>>),
   PackageJsonFile(4, <<Dep("zod", "^3.0.0"), Dep("passport", "^0.6.0"),
                        Dep("@nestjs/core", "^11.0.0")>>, <<>>),
   InvalidJson}

UpdaterDisks ==
  {[p \in AllPaths |->
      CASE p = AppModulePath -> a
        [] p = MainTsPath -> m
        [] p = PackageJsonPath -> j
        [] OTHER -> Absent] :
     a \in AppModuleSamples \cup {Absent},
     m \in MainTsSamples \cup {Absent},
     j \in PackageJsonSamples \cup {Absent}}

UpdaterConfigs ==
  {c \in Configs : ~c.rbac /\ ~c.autoInstall /\ c.database = "postgres"
                   /\ c.orm \in {"none", "typeorm"} /\ ~c.refreshTokens}

InitUpdater ==
  /\ fs \in UpdaterDisks
  /\ dirs = {}
  /\ writtenFiles = <<>> /\ backups = EmptyMap
  /\ upd = [pc |-> "idle"]
  /\ call = [op |-> "new"]
  /\ snap = Unused /\ pipe = Unused /\ srv = Unused /\ mrg = Unused

\* call.before is the target's content when update() was called, call.backupTaken
\* whether createBackup completed, call.sidecar the backup file update created.
U_update(kind, config) ==
  /\ upd.pc = "idle"
  /\ LET s == updater_createBackup(fs, NewUpdater(kind, config)) IN
       /\ fs' = s.fs
       /\ upd' = s.u
       /\ call' = [op |-> "update", kind |-> kind, before |-> fs[Target(kind)],
                   backupTaken |-> (s.u.pc = "try")]
  /\ UNCHANGED <<dirs, writtenFiles, backups, snap, pipe, srv, mrg>>

StepTo(s) ==
  /\ fs' = s.fs
  /\ upd' = s.u
  /\ UNCHANGED <<dirs, writtenFiles, backups, call, snap, pipe, srv, mrg>>

U_edit == upd.pc = "try" /\ StepTo(updater_edit(fs, upd))

U_save(fault) == upd.pc = "save" /\ StepTo(updater_save(fs, upd, fault))

U_restoreCopy == upd.pc = "catch" /\ StepTo(restoreBackup_copy(fs, upd))

U_restoreRemove == upd.pc = "restoreRemove" /\ StepTo(restoreBackup_remove(fs, upd))

U_cleanupBackup == upd.pc = "returned" /\ StepTo(cleanupBackup(fs, upd))

\* the caller drops the updater object; the next step makes a new one
U_drop ==
  /\ upd.pc \in {"thrown", "done"}
  /\ upd' = [pc |-> "idle"]
  /\ call' = [op |-> "new"]
  /\ UNCHANGED <<fs, dirs, writtenFiles, backups, snap, pipe, srv, mrg>>

\* The process is killed while createBackup's fs.copy is writing the sidecar:
\* the sidecar is left incomplete.
U_killDuringBackup(kind) ==
  /\ upd.pc = "idle"
  /\ pathExists(fs, Target(kind))
  /\ fs' = [fs EXCEPT ![Backup(Target(kind))] = Partial]
  /\ upd' = [pc |-> "killed", at |-> "createBackup"]
  /\ call' = [op |-> "update", kind |-> kind, before |-> fs[Target(kind)],
              backupTaken |-> FALSE]
  /\ UNCHANGED <<dirs, writtenFiles, backups, snap, pipe, srv, mrg>>

\* The process is killed at a later await of update or cleanupBackup.  midWrite:
\* the write in flight (the save, or restoreBackup's copy onto the target) had
\* begun and leaves its destination incomplete; otherwise the disk is as the
\* last completed operation left it.  fs.remove unlinks in one step.
U_kill(midWrite) ==
  /\ upd.pc \in {"try", "save", "catch", "restoreRemove", "returned"}
  /\ fs' = IF midWrite /\ upd.pc = "save"
             THEN [fs EXCEPT ![Target(upd.kind)] = Partial]
           ELSE IF midWrite /\ upd.pc = "catch" /\ upd.backupPath # NullPath
                   /\ pathExists(fs, upd.backupPath)
             THEN [fs EXCEPT ![Target(upd.kind)] = Partial]
           ELSE fs
  /\ upd' = [pc |-> "killed", at |-> upd.pc]
  /\ UNCHANGED <<dirs, writtenFiles, backups, call, snap, pipe, srv, mrg>>

NextUpdater ==
  \/ \E kind \in UpdaterKinds : U_killDuringBackup(kind)
  \/ \E midWrite \in BOOLEAN : U_kill(midWrite)
  \/ \E kind \in UpdaterKinds, c \in UpdaterConfigs : U_update(kind, c)
  \/ U_edit
  \/ \E fault \in SaveFaults : U_save(fault)
  \/ U_restoreCopy
  \/ U_restoreRemove
  \/ U_cleanupBackup
  \/ U_drop

SpecUpdater == InitUpdater /\ [][NextUpdater]_vars

\* C1: when update() has thrown after its backup was taken (the edit threw, or
\* the save threw before completing), the target file holds the content it had
\* when update() was called, and the error thrown is the one that was caught.
C1_RollbackRestoresContent ==
  (upd.pc = "thrown" /\ call.backupTaken)
    => /\ fs[Target(upd.kind)] = call.before
       /\ upd.err # None
       /\ upd.thrown = upd.err

C1_Witness ==
  /\ upd.pc = "thrown" /\ call.backupTaken
  /\ upd.fault = "failPartial"
  /\ upd.sourceFile # None
  /\ upd.sourceFile # call.before
  /\ upd.kind = "app"


\* the save of the update in flight has completed
SaveCompleted ==
  \/ upd.pc \in {"returned", "done"}
  \/ upd.pc = "killed" /\ upd.at = "returned"

\* C29: from the call of update on an existing target until its save has
\* completed, whether update is at an await, has thrown, or the process was
\* killed there or in the middle of a write, the target or its ".backup"
\* sidecar holds the content the target had at the call.
C29_OriginalNeverLost ==
  (upd.pc # "idle" /\ call.before # Absent /\ ~SaveCompleted)
    => \/ fs[Target(call.kind)] = call.before
       \/ fs[Backup(Target(call.kind))] = call.before

C29_Witness ==
  /\ upd.pc = "killed" /\ upd.at = "save"
  /\ call.kind = "pkg"
  /\ fs[PackageJsonPath] = Partial
  /\ fs[Backup(PackageJsonPath)] = call.before
  /\ call.before # Absent

\* C22: when update of AppModuleUpdater or MainTsUpdater has returned or
\* thrown, the target holds its original text or the text with every edit
\* applied; and the target is written by the save and by the restore from
\* backup only.
Completed == upd.pc \in {"returned", "done", "thrown"} /\ upd.kind \in {"app", "main"}

FullyEdited(kind, before, config, now) ==
  /\ before # Absent
  /\ ~Edit(kind, before, config).threw
  /\ now = Edit(kind, before, config).file

C22_OldOrNew ==
  Completed =>
    \/ fs[Target(upd.kind)] = call.before
    \/ FullyEdited(upd.kind, call.before, upd.config, fs[Target(upd.kind)])

C22_WrittenBySaveOrRestore ==
  \A p \in {AppModulePath, MainTsPath} :
     fs'[p] # fs[p] => upd.pc \in {"save", "catch"} /\ p = Target(upd.kind)

C22_NoPartialEdit == []C22_OldOrNew /\ [][C22_WrittenBySaveOrRestore]_vars

C22_Witness ==
  /\ upd.pc = "thrown" /\ upd.kind = "main"
  /\ upd.fault = "failPartial"
  /\ call.before # Absent /\ call.before.fn = "block"
  /\ fs[MainTsPath] = call.before

----------------------------------------------------------------------------
(* SpecPipeline: GuiOrchestrator.generate (orchestrator.ts:96-178); the CLI  *)
(* run (part_009:91-175) takes the same steps in the same order             *)

PipelineConfigs ==
  {c \in Configs : c.orm = "none" /\ c.database = "postgres" /\ ~c.refreshTokens}

\* ProjectDetector.detectProject (part_004:16-80); authExists is the directory
\* src/auth being there
detectProject_no_app_module_check(disk, d) ==
  IF ~pathExists(disk, PackageJsonPath)
    THEN [isValid |-> FALSE, errors |-> <<"package.json not found">>]
  ELSE IF disk[PackageJsonPath].k # "pkg"
    THEN [isValid |-> FALSE, errors |-> <<"Failed to read package.json">>]
  ELSE IF \/ "@nestjs/core" \notin Keys(disk[PackageJsonPath].dependencies)
          \/ "@nestjs/common" \notin Keys(disk[PackageJsonPath].dependencies)
    THEN [isValid |-> FALSE, errors |-> <<"Not a NestJS project">>]
  ELSE [isValid |-> TRUE, errors |-> <<>>, authExists |-> "src/auth" \in d]

detectProject(disk, d) ==
  IF ~pathExists(disk, PackageJsonPath)
    THEN [isValid |-> FALSE, errors |-> <<"package.json not found">>]
  ELSE IF disk[PackageJsonPath].k # "pkg"
    THEN [isValid |-> FALSE, errors |-> <<"Failed to read package.json">>]
  ELSE IF \/ "@nestjs/core" \notin Keys(disk[PackageJsonPath].dependencies)
          \/ "@nestjs/common" \notin Keys(disk[PackageJsonPath].dependencies)
    THEN [isValid |-> FALSE, errors |-> <<"Not a NestJS project">>]
  ELSE IF ~pathExists(disk, AppModulePath)
    THEN [isValid |-> FALSE, errors |-> <<"app.module.ts not found">>]
  ELSE [isValid |-> TRUE, errors |-> <<>>, authExists |-> "src/auth" \in d]

\* the package.json of a NestJS project
NestPackageJson ==
  PackageJsonFile(2, <<Dep("@nestjs/common", "^11.0.0"), Dep("@nestjs/core", "^11.0.0")>>,
                  <<Dep("jest", "^29.0.0")>>)

\* an app.module.ts the edit succeeds on, and one for each way it fails
PipelineAppModules ==
  {AppModuleFile(<<[mod |-> "@nestjs/common", names |-> <<"Module">>]>>,
                 TRUE, TRUE, "object", "assignment", "array", <<>>),
   AppModuleFile(<<[mod |-> "@nestjs/common", names |-> <<"Module">>]>>,
                 FALSE, FALSE, "none", "missing", "none", <<>>),
   AppModuleFile(<<[mod |-> "@nestjs/common", names |-> <<"Module">>]>>,
                 TRUE, FALSE, "none", "missing", "none", <<>>),
   AppModuleFile(<<[mod |-> "@nestjs/common", names |-> <<"Module">>]>>,
                 TRUE, TRUE, "other", "missing", "none", <<>>),
   AppModuleFile(<<[mod |-> "@nestjs/common", names |-> <<"Module">>]>>,
                 TRUE, TRUE, "object", "assignment", "other", <<>>)}

\* detectProject has found package.json parseable and app.module.ts present
PipelineDisks ==
  {[p \in AllPaths |->
      CASE p \in present -> Text("old")
        [] p = AppModulePath -> a
        [] p = MainTsPath -> m
        [] p = PackageJsonPath -> NestPackageJson
        [] OTHER -> Absent] :
     present \in SUBSET PlanFiles,
     a \in PipelineAppModules,
     m \in {MainTsFile(MainTsImports, "block", <<StmtCreate, StmtListen>>, <<>>),
            MainTsFile(MainTsImports, "declaration", <<>>, <<>>),
            MainTsFile(MainTsImports, "none", <<>>, <<>>), Absent}}

Event(step, status) == [step |-> step, status |-> status]

GenerateResult(success, filesCreated, filesSkipped, errors, warnings) ==
  [success |-> success, filesCreated |-> filesCreated, filesSkipped |-> filesSkipped,
   errors |-> errors, warnings |-> warnings]

InitPipeline ==
  /\ fs \in PipelineDisks
  /\ dirs \in {d \in SUBSET AllDirs : DirsConsistent(fs, d)}
  /\ writtenFiles = <<>> /\ backups = EmptyMap
  /\ pipe \in [pc : {"generate"}, config : PipelineConfigs, overwrite : BOOLEAN,
               gen : {None}, errors : {<<>>}, warnings : {<<>>}, events : {<<>>},
               result : {None}]
  /\ snap = [fs0 |-> fs, sidecars |-> {}]
  /\ call = [op |-> "new"]
  /\ upd = Unused /\ srv = Unused /\ mrg = Unused

\* snap.fs0 is the project before the run; snap.sidecars the ".backup" files
\* the steps so far have created.
SidecarOf(disk, kind) ==
  IF pathExists(disk, Target(kind)) THEN {Backup(Target(kind))} ELSE {}

\* Step 1: new Generator(), generator.generate
P_generate(missingTemplates) ==
  /\ pipe.pc = "generate"
  /\ \E r \in {generate([fs |-> fs, dirs |-> dirs, writtenFiles |-> <<>>,
                            backups |-> EmptyMap],
                           pipe.config, pipe.overwrite, missingTemplates)} :
        /\ SetWorld(r.w)
        /\ snap' = [snap EXCEPT !.sidecars =
                      @ \cup {r.mid.backups[o] : o \in DOMAIN r.mid.backups}]
        /\ call' = [op |-> "generate"]
        /\ IF ~r.result.success
             THEN pipe' = [pipe EXCEPT
                    !.pc = "returned",
                    !.events = @ \o <<Event("generate", "started"), Event("generate", "failed")>>,
                    !.result = GenerateResult(FALSE, <<>>, <<>>,
                                              <<Text("generation error")>>, pipe.warnings)]
             ELSE pipe' = [pipe EXCEPT
                    !.pc = "ast-app-module",
                    !.gen = r.result,
                    !.events = @ \o <<Event("generate", "started"),
                                      Event("generate", "completed")>>]
  /\ UNCHANGED <<upd, srv, mrg>>

\* update followed by cleanupBackup inside one try block
updateAndCleanup(disk, kind, config, fault) ==
  Only({IF s.u.pc = "returned" THEN cleanupBackup(s.fs, s.u) ELSE s :
          s \in {update(disk, kind, config, fault)}})

\* Step 2: AppModuleUpdater; a throw fails the run
P_appModule(fault) ==
  /\ pipe.pc = "ast-app-module"
  /\ \E s \in {updateAndCleanup(fs, "app", pipe.config, fault)} :
       /\ fs' = s.fs
       /\ IF s.u.pc = "done"
            THEN pipe' = [pipe EXCEPT
                   !.pc = "ast-main-ts",
                   !.events = @ \o <<Event("ast-app-module", "started"),
                                     Event("ast-app-module", "completed")>>]
            ELSE pipe' = [pipe EXCEPT
                   !.pc = "returned",
                   !.errors = Append(@, s.u.thrown),
                   !.events = @ \o <<Event("ast-app-module", "started"),
                                     Event("ast-app-module", "failed")>>,
                   !.result = GenerateResult(FALSE, pipe.gen.filesCreated,
                                pipe.gen.filesSkipped, Append(pipe.errors, s.u.thrown),
                                pipe.warnings)]
  /\ snap' = [snap EXCEPT !.sidecars = @ \cup SidecarOf(fs, "app")]
  /\ call' = [op |-> "ast-app-module"]
  /\ UNCHANGED <<dirs, writtenFiles, backups, upd, srv, mrg>>

\* a throw of MainTsUpdater handled as that of the other updaters is
P_mainTs_fatal(fault) ==
  /\ pipe.pc = "ast-main-ts"
  /\ \E s \in {updateAndCleanup(fs, "main", pipe.config, fault)} :
       /\ fs' = s.fs
       /\ IF s.u.pc = "done"
            THEN pipe' = [pipe EXCEPT
                   !.pc = "package-json",
                   !.events = @ \o <<Event("ast-main-ts", "started"),
                                     Event("ast-main-ts", "completed")>>]
            ELSE pipe' = [pipe EXCEPT
                   !.pc = "returned",
                   !.errors = Append(@, s.u.thrown),
                   !.events = @ \o <<Event("ast-main-ts", "started"),
                                     Event("ast-main-ts", "failed")>>,
                   !.result = GenerateResult(FALSE, pipe.gen.filesCreated,
                                pipe.gen.filesSkipped, Append(pipe.errors, s.u.thrown),
                                pipe.warnings)]
  /\ snap' = [snap EXCEPT !.sidecars = @ \cup SidecarOf(fs, "main")]
  /\ call' = [op |-> "ast-main-ts"]
  /\ UNCHANGED <<dirs, writtenFiles, backups, upd, srv, mrg>>

\* Step 3: MainTsUpdater; a throw is a warning
P_mainTs(fault) ==
  /\ pipe.pc = "ast-main-ts"
  /\ \E s \in {updateAndCleanup(fs, "main", pipe.config, fault)} :
       /\ fs' = s.fs
       /\ IF s.u.pc = "done"
            THEN pipe' = [pipe EXCEPT
                   !.pc = "package-json",
                   !.events = @ \o <<Event("ast-main-ts", "started"),
                                     Event("ast-main-ts", "completed")>>]
            ELSE pipe' = [pipe EXCEPT
                   !.pc = "package-json",
                   !.warnings = Append(@, Text("Could not auto-update main.ts")),
                   !.events = @ \o <<Event("ast-main-ts", "started"),
                                     Event("ast-main-ts", "warning")>>]
  /\ snap' = [snap EXCEPT !.sidecars = @ \cup SidecarOf(fs, "main")]
  /\ call' = [op |-> "ast-main-ts"]
  /\ UNCHANGED <<dirs, writtenFiles, backups, upd, srv, mrg>>

\* the install step entered whatever autoInstall says
P_packageJson_always_installs(fault) ==
  /\ pipe.pc = "package-json"
  /\ \E s \in {updateAndCleanup(fs, "pkg", pipe.config, fault)} :
     LET started == pipe.events \o <<Event("package-json", "started")>> IN
       /\ fs' = s.fs
       /\ IF s.u.pc # "done"
            THEN pipe' = [pipe EXCEPT
                   !.pc = "returned",
                   !.errors = Append(@, s.u.thrown),
                   !.events = Append(started, Event("package-json", "failed")),
                   !.result = GenerateResult(FALSE, pipe.gen.filesCreated,
                                pipe.gen.filesSkipped, Append(pipe.errors, s.u.thrown),
                                pipe.warnings)]
          ELSE IF TRUE
            THEN pipe' = [pipe EXCEPT
                   !.pc = "install-deps",
                   !.events = Append(started, Event("package-json", "completed"))]
          ELSE pipe' = [pipe EXCEPT
                   !.pc = "returned",
                   !.events = Append(started, Event("package-json", "completed")),
                   !.result = GenerateResult(TRUE, pipe.gen.filesCreated,
                                pipe.gen.filesSkipped, pipe.errors, pipe.warnings)]
  /\ snap' = [snap EXCEPT !.sidecars = @ \cup SidecarOf(fs, "pkg")]
  /\ call' = [op |-> "package-json"]
  /\ UNCHANGED <<dirs, writtenFiles, backups, upd, srv, mrg>>

\* Step 4: PackageUpdater; a throw fails the run.  Without autoInstall the
\* method returns success here.
P_packageJson(fault) ==
  /\ pipe.pc = "package-json"
  /\ \E s \in {updateAndCleanup(fs, "pkg", pipe.config, fault)} :
     LET started == pipe.events \o <<Event("package-json", "started")>> IN
       /\ fs' = s.fs
       /\ IF s.u.pc # "done"
            THEN pipe' = [pipe EXCEPT
                   !.pc = "returned",
                   !.errors = Append(@, s.u.thrown),
                   !.events = Append(started, Event("package-json", "failed")),
                   !.result = GenerateResult(FALSE, pipe.gen.filesCreated,
                                pipe.gen.filesSkipped, Append(pipe.errors, s.u.thrown),
                                pipe.warnings)]
          ELSE IF pipe.config.autoInstall
            THEN pipe' = [pipe EXCEPT
                   !.pc = "install-deps",
                   !.events = Append(started, Event("package-json", "completed"))]
          ELSE pipe' = [pipe EXCEPT
                   !.pc = "returned",
                   !.events = Append(started, Event("package-json", "completed")),
                   !.result = GenerateResult(TRUE, pipe.gen.filesCreated,
                                pipe.gen.filesSkipped, pipe.errors, pipe.warnings)]
  /\ snap' = [snap EXCEPT !.sidecars = @ \cup SidecarOf(fs, "pkg")]
  /\ call' = [op |-> "package-json"]
  /\ UNCHANGED <<dirs, writtenFiles, backups, upd, srv, mrg>>

\* the install step reporting its failure in errors
P_installDeps_as_error(installed) ==
  /\ pipe.pc = "install-deps"
  /\ LET errors == IF installed THEN pipe.errors
                   ELSE Append(pipe.errors, Text("install error"))
     IN pipe' = [pipe EXCEPT
          !.pc = "returned",
          !.errors = errors,
          !.events = @ \o <<Event("install-deps", "started"),
                            Event("install-deps", IF installed THEN "completed" ELSE "warning")>>,
          !.result = GenerateResult(TRUE, pipe.gen.filesCreated, pipe.gen.filesSkipped,
                                    errors, pipe.warnings)]
  /\ call' = [op |-> "install-deps"]
  /\ UNCHANGED <<fs, dirs, writtenFiles, backups, snap, upd, srv, mrg>>

\* Step 5: DependencyInstaller.installCapture; a throw is a warning
P_installDeps(installed) ==
  /\ pipe.pc = "install-deps"
  /\ LET warnings == IF installed THEN pipe.warnings
                     ELSE Append(pipe.warnings, Text("Failed to install dependencies"))
     IN pipe' = [pipe EXCEPT
          !.pc = "returned",
          !.warnings = warnings,
          !.events = @ \o <<Event("install-deps", "started"),
                            Event("install-deps", IF installed THEN "completed" ELSE "warning")>>,
          !.result = GenerateResult(TRUE, pipe.gen.filesCreated, pipe.gen.filesSkipped,
                                    pipe.errors, warnings)]
  /\ call' = [op |-> "install-deps"]
  /\ UNCHANGED <<fs, dirs, writtenFiles, backups, snap, upd, srv, mrg>>

NextPipeline ==
  \/ \E m \in MissingTemplates : P_generate(m)
  \/ \E fault \in SaveFaults : P_appModule(fault)
  \/ \E fault \in SaveFaults : P_mainTs(fault)
  \/ \E fault \in SaveFaults : P_packageJson(fault)
  \/ \E installed \in BOOLEAN : P_installDeps(installed)

SpecPipeline == InitPipeline /\ [][NextPipeline]_vars

\* C4: when the pipeline has ended in failure, every file of the project has
\* the existence and the content it had before the run.
C4_FailureLeavesProjectAsFound ==
  (pipe.pc = "returned" /\ ~pipe.result.success)
    => \A p \in ProjectFiles : fs[p] = snap.fs0[p]

\* C8: after every pipeline step (Generator.generate returning either way, an
\* updater's update and cleanupBackup, an updater's update throwing) no
\* ".backup" file that a step created is on disk.
C8_NoBackupLeftBehind ==
  \A b \in snap.sidecars : fs[b] = Absent

C8_Witness ==
  /\ pipe.pc = "returned"
  /\ pipe.result.success
  /\ Backup(AuthModuleTs) \in snap.sidecars
  /\ {Backup(AppModulePath), Backup(MainTsPath), Backup(PackageJsonPath)}
       \subseteq snap.sidecars
  /\ Len(pipe.warnings) > 0


\* C15: when app.module.ts has no class AppModule, no @Module decorator, a
\* first decorator argument that is no object literal, or an imports
\* initializer that is no array literal, the app.module.ts step throws, the
\* file keeps its content and the run ends in failure with no later step run.
BadStructure(file) ==
  \/ ~file.klass \/ ~file.decorator \/ file.arg # "object"
  \/ (file.prop = "assignment" /\ file.init # "array")

StepsRun == {pipe.events[i].step : i \in 1..Len(pipe.events)}

C15_ModuleEditorFailsClosed ==
  BadStructure(snap.fs0[AppModulePath]) =>
    /\ fs[AppModulePath] = snap.fs0[AppModulePath]
    /\ pipe.pc \in {"generate", "ast-app-module", "returned"}
    /\ StepsRun \subseteq {"generate", "ast-app-module"}
    /\ pipe.pc = "returned" =>
         /\ ~pipe.result.success
         /\ Len(pipe.result.errors) > 0
         /\ pipe.events[Len(pipe.events)].status = "failed"

C15_Witness ==
  /\ snap.fs0[AppModulePath].klass /\ snap.fs0[AppModulePath].decorator
  /\ snap.fs0[AppModulePath].arg = "other"
  /\ call.op = "ast-app-module"
  /\ pipe.pc = "returned"
  /\ pipe.events[Len(pipe.events)] = Event("ast-app-module", "failed")

\* C19: a failing main.ts step leaves every file as it was, main.ts with its
\* original content, records a warning and goes on to the package.json step;
\* a failing installation records a warning; the run that gets past the
\* package.json step returns success.
LastEvent(p) == p.events[Len(p.events)]

C19_Step ==
  /\ (pipe.pc = "ast-main-ts" /\ LastEvent(pipe').status # "completed") =>
        /\ LastEvent(pipe') = Event("ast-main-ts", "warning")
        /\ fs' = fs
        /\ fs'[MainTsPath] = snap.fs0[MainTsPath]
        /\ Len(pipe'.warnings) = Len(pipe.warnings) + 1
        /\ pipe'.errors = pipe.errors
        /\ pipe'.pc = "package-json"
  /\ (pipe.pc = "package-json" /\ LastEvent(pipe').status = "completed") =>
        /\ pipe'.pc \in {"install-deps", "returned"}
        /\ pipe'.pc = "returned" => pipe'.result.success
  /\ pipe.pc = "install-deps" =>
        /\ fs' = fs
        /\ pipe'.pc = "returned" /\ pipe'.result.success
        /\ LastEvent(pipe').status # "completed" =>
              /\ LastEvent(pipe') = Event("install-deps", "warning")
              /\ Len(pipe'.result.warnings) = Len(pipe.warnings) + 1

C19_WarningsNeverAbort == [][C19_Step]_vars

C19_Witness ==
  /\ pipe.pc = "returned" /\ pipe.result.success
  /\ Event("ast-main-ts", "warning") \in SeqToSet(pipe.events)
  /\ Event("install-deps", "warning") \in SeqToSet(pipe.events)
  /\ Len(pipe.result.warnings) = 2
  /\ snap.fs0[MainTsPath] # Absent /\ snap.fs0[MainTsPath].fn = "block"
  /\ fs[AppModulePath] # snap.fs0[AppModulePath]
  /\ fs[PackageJsonPath] # snap.fs0[PackageJsonPath]


\* C23: the steps run one after another in the order generate, ast-app-module,
\* ast-main-ts, package-json, install-deps, the last only with autoInstall:
\* each step that runs emits 'started' once and then one of 'completed',
\* 'failed', 'warning' before the next 'started'; a 'failed' event is the last.
StepOrder ==
  <<"generate", "ast-app-module", "ast-main-ts", "package-json", "install-deps">>

C23_StepsInOrder ==
  LET ev == pipe.events
      n == Len(ev) \div 2
  IN  /\ Len(ev) = 2 * n
      /\ n <= Len(StepOrder)
      /\ \A j \in 1..n :
            /\ ev[2 * j - 1] = Event(StepOrder[j], "started")
            /\ ev[2 * j].step = StepOrder[j]
            /\ ev[2 * j].status \in {"completed", "failed", "warning"}
            /\ ev[2 * j].status = "failed" => j = n /\ pipe.pc = "returned"
      /\ n = 5 => pipe.config.autoInstall
      /\ (pipe.pc = "returned" /\ pipe.result.success) =>
            n = (IF pipe.config.autoInstall THEN 5 ELSE 4)

C23_Witness ==
  /\ pipe.pc = "returned" /\ pipe.result.success
  /\ Len(pipe.events) = 10
  /\ pipe.events[6].status = "warning"

\* the warning each step that can warn pushes
WarningOf(step) ==
  IF step = "ast-main-ts" THEN Text("Could not auto-update main.ts")
  ELSE Text("Failed to install dependencies")

WarnedSteps == {e.step : e \in {x \in SeqToSet(pipe.events) : x.status = "warning"}}

\* C38: a result the orchestrator returns has no errors when success is true
\* and at least one when it is false, and its warnings are one entry for the
\* main.ts step if that step failed and one for the install step if that step
\* failed, nothing else.
C38_ResultShape ==
  pipe.pc = "returned" =>
    /\ pipe.result.success => pipe.result.errors = <<>>
    /\ ~pipe.result.success => pipe.result.errors # <<>>
    /\ WarnedSteps \subseteq {"ast-main-ts", "install-deps"}
    /\ SeqToSet(pipe.result.warnings) = {WarningOf(step) : step \in WarnedSteps}
    /\ Len(pipe.result.warnings) = Cardinality(WarnedSteps)

C38_Witness ==
  /\ pipe.pc = "returned" /\ ~pipe.result.success
  /\ Len(pipe.result.errors) = 1
  /\ pipe.result.warnings = <<WarningOf("ast-main-ts")>>
  /\ Event("package-json", "failed") \in SeqToSet(pipe.events)

----------------------------------------------------------------------------
(* SpecServer: GuiServer.handlePostGenerate (part_006:205-260), one handler  *)
(* invocation per POST /api/generate, interleaved at its awaits              *)

MaxRequests == 2

Requests == 1..MaxRequests

NoResponse == 0

PipelineSteps ==
  <<"generate", "ast-app-module", "ast-main-ts", "package-json", "install-deps">>

\* the steps whose failure ends orchestrator.generate
FatalSteps == {"generate", "ast-app-module", "package-json"}

NewRequest ==
  [pc |-> "unsent", response |-> NoResponse, step |-> 0,
   duringRun |-> FALSE, complete |-> "none", completeEvents |-> 0]

Running(s) == {r \in Requests : s.req[r].pc = "generating"}

InitServer ==
  /\ srv = [isGenerating |-> FALSE, req |-> [r \in Requests |-> NewRequest],
            status |-> "listening", shutdownTimers |-> 0, exitTimers |-> 0,
            broadcast |-> {}]
  /\ fs = Unused /\ dirs = Unused /\ writtenFiles = Unused /\ backups = Unused
  /\ call = Unused /\ snap = Unused /\ upd = Unused /\ pipe = Unused /\ mrg = Unused

ServerStep(s) ==
  /\ srv' = s
  /\ UNCHANGED <<fs, dirs, writtenFiles, backups, call, snap, upd, pipe, mrg>>

\* srv.status: "listening"; "closing" once shutdown has called server.close,
\* which stops the server accepting connections; "exited" after process.exit.
\* srv.shutdownTimers, srv.exitTimers: the pending timers of lines 243-246;
\* srv.broadcast: the names of the events broadcastEvent was called with.
\*
\* lines 206-212: the isGenerating test, then the handler suspends in parseBody
S_receive(r) ==
  /\ srv.status = "listening"
  /\ srv.req[r].pc = "unsent"
  /\ LET q == [srv.req[r] EXCEPT !.duringRun = Running(srv) # {}] IN
     IF srv.isGenerating
       THEN ServerStep([srv EXCEPT !.req[r] = [q EXCEPT !.pc = "done", !.response = 409]])
       ELSE ServerStep([srv EXCEPT !.req[r] = [q EXCEPT !.pc = "parseBody"]])

\* lines 250-259: the catch block
\* the catch block without "this.isGenerating = false"
handlePostGenerate_catch_keeps_flag(s, r) ==
  [s EXCEPT !.broadcast = @ \cup {"generation-complete"},
            !.req[r] = [@ EXCEPT !.pc = "done", !.complete = "failure",
                                 !.completeEvents = @ + 1]]

\* req[r].completeEvents counts the 'generation-complete' broadcasts of r's handler
handlePostGenerate_catch(s, r) ==
  [s EXCEPT !.isGenerating = FALSE,
            !.broadcast = @ \cup {"generation-complete"},
            !.req[r] = [@ EXCEPT !.pc = "done", !.complete = "failure",
                                 !.completeEvents = @ + 1]]

\* line 212: parseBody resolves or rejects (invalid JSON, body too large)
S_parseBody(r, parsed) ==
  /\ srv.status # "exited"
  /\ srv.req[r].pc = "parseBody"
  /\ IF parsed
       THEN ServerStep([srv EXCEPT !.req[r].pc = "detectProject"])
       ELSE ServerStep(handlePostGenerate_catch(srv, r))

\* lines 213-233: detectProject resolves; 400, or buildConfig, 202,
\* isGenerating = true and the call of orchestrator.generate
S_detectProject(r, outcome) ==
  /\ srv.status # "exited"
  /\ srv.req[r].pc = "detectProject"
  /\ CASE outcome = "invalid" ->
            ServerStep([srv EXCEPT !.req[r] = [@ EXCEPT !.pc = "done", !.response = 400]])
       [] outcome = "throws" ->
            ServerStep(handlePostGenerate_catch(srv, r))
       [] OTHER ->
            ServerStep([srv EXCEPT
              !.isGenerating = TRUE,
              !.req[r] = [@ EXCEPT !.pc = "generating", !.response = 202, !.step = 1]])

\* the shutdown never scheduled
handlePostGenerate_complete_no_timer(s, r, success) ==
  [s EXCEPT !.isGenerating = FALSE,
            !.broadcast = @ \cup {"generation-complete"},
            !.req[r] = [@ EXCEPT !.pc = "done",
                                 !.completeEvents = @ + 1,
                                 !.complete = IF success THEN "success" ELSE "failure"]]

\* lines 238-249: orchestrator.generate has resolved; after success the
\* 5000 ms timer is set
handlePostGenerate_complete(s, r, success) ==
  [s EXCEPT !.isGenerating = FALSE,
            !.broadcast = @ \cup {"generation-complete"},
            !.shutdownTimers = IF success THEN @ + 1 ELSE @,
            !.req[r] = [@ EXCEPT !.pc = "done",
                                 !.completeEvents = @ + 1,
                                 !.complete = IF success THEN "success" ELSE "failure"]]

\* one awaited step of orchestrator.generate (orchestrator.ts:102-169)
S_pipelineStep(r, ok, autoInstall) ==
  /\ srv.status # "exited"
  /\ srv.req[r].pc = "generating"
  /\ LET i == srv.req[r].step
         name == PipelineSteps[i]
         last == IF autoInstall THEN 5 ELSE 4
     IN
     IF ~ok /\ name \in FatalSteps
       THEN ServerStep(handlePostGenerate_complete(srv, r, FALSE))
     ELSE IF i >= last
       THEN ServerStep(handlePostGenerate_complete(srv, r, TRUE))
     ELSE ServerStep([srv EXCEPT !.req[r].step = i + 1])

\* orchestrator.generate rejects: step 1 is outside any try block
\* (orchestrator.ts:102-110) and Generator.generate rejects when the rollback
\* in its catch block throws (generator.ts:80); handlePostGenerate catches
S_generateThrows(r) ==
  /\ srv.status # "exited"
  /\ srv.req[r].pc = "generating"
  /\ srv.req[r].step = 1
  /\ ServerStep(handlePostGenerate_catch(srv, r))

\* lines 243-246: the 5000 ms timer fires: 'server-shutdown' is broadcast and
\* the 2000 ms timer is set
S_shutdownTimer ==
  /\ srv.status # "exited"
  /\ srv.shutdownTimers > 0
  /\ ServerStep([srv EXCEPT !.shutdownTimers = @ - 1,
                            !.broadcast = @ \cup {"server-shutdown"},
                            !.exitTimers = @ + 1])

\* the 2000 ms timer fires: shutdown (lines 65-82) ends the SSE clients and
\* calls server.close
S_shutdown ==
  /\ srv.status # "exited"
  /\ srv.exitTimers > 0
  /\ ServerStep([srv EXCEPT !.exitTimers = @ - 1, !.status = "closing"])

\* lines 72-80: the close callback, or the 5000 ms timer of shutdown, calls
\* process.exit(0)
S_exit ==
  /\ srv.status = "closing"
  /\ ServerStep([srv EXCEPT !.status = "exited"])

NextServer ==
  \/ \E r \in Requests :
       \/ S_receive(r)
       \/ \E parsed \in BOOLEAN : S_parseBody(r, parsed)
       \/ \E outcome \in {"valid", "invalid", "throws"} : S_detectProject(r, outcome)
       \/ \E ok \in BOOLEAN, autoInstall \in BOOLEAN : S_pipelineStep(r, ok, autoInstall)
       \/ S_generateThrows(r)
  \/ S_shutdownTimer
  \/ S_shutdown
  \/ S_exit

SpecServer == InitServer /\ [][NextServer]_vars

\* Timers that are due fire and a closing process exits: Node's event loop
\* runs every expired timer, and shutdown sets its own 5000 ms timer that
\* calls process.exit when the close callback does not come.
SpecServerFair ==
  SpecServer /\ WF_vars(S_shutdownTimer) /\ WF_vars(S_shutdown) /\ WF_vars(S_exit)

Succeeded(s) == \E r \in Requests : s.req[r].complete = "success"

\* a generation completing with success=false sets no timer and leaves the
\* server as it is
C27_FailureStep ==
  \A r \in Requests :
    (srv.req[r].complete # "failure" /\ srv'.req[r].complete = "failure")
      => /\ srv'.shutdownTimers = srv.shutdownTimers
         /\ srv'.exitTimers = srv.exitTimers
         /\ srv'.status = srv.status

\* while no generation has succeeded no shutdown is pending, none was
\* announced and the server accepts requests
C27_NoShutdownWithoutSuccess ==
  ~Succeeded(srv) =>
    /\ srv.shutdownTimers = 0 /\ srv.exitTimers = 0
    /\ srv.status = "listening"
    /\ "server-shutdown" \notin srv.broadcast

C32_CompletionStep ==
  \A r \in Requests :
    (srv.req[r].pc = "generating" /\ srv'.req[r].pc = "done")
      => /\ ~srv'.isGenerating
         /\ srv'.req[r].completeEvents = 1

\* the flag is up only while a generation is running, and a request received
\* while none is running is not answered 409
C32_FlagOnlyWhileRunning ==
  /\ srv.isGenerating => Running(srv) # {}
  /\ \A r \in Requests :
       (srv.req[r].pc # "unsent" /\ ~srv.req[r].duringRun) => srv.req[r].response # 409
  /\ \A r \in Requests : srv.req[r].completeEvents <= 1

\* C32: the in-flight flag is released by every generation that was started,
\* whether it returns success, returns failure or throws: when it ends
\* isGenerating is false and one 'generation-complete' was broadcast for it,
\* the flag is never up with no generation running, and a request received
\* when none is running is not rejected with 409.
C32_FlagAlwaysReleased ==
  /\ []C32_FlagOnlyWhileRunning
  /\ [][C32_CompletionStep]_vars

C32_Witness ==
  /\ srv.req[1].complete = "failure" /\ srv.req[1].response = 202
  /\ srv.req[1].completeEvents = 1
  /\ ~srv.req[2].duringRun
  /\ srv.req[2].response = 202 /\ srv.req[2].pc = "generating"
  /\ srv.isGenerating

\* C31: every POST /api/generate request is answered: once its handler has
\* run to its end, the request has received one response, 202, 400 or 409,
\* also when body parsing or project detection failed.
C31_EveryRequestAnswered ==
  \A r \in Requests :
    srv.req[r].pc = "done" => srv.req[r].response \in {202, 400, 409}

\* C5: at most one generation pipeline is running at any time, and a request
\* received while a pipeline is running is answered 409 and starts none.
C5_AtMostOnePipelineRunning ==
  /\ Cardinality(Running(srv)) <= 1
  /\ \A r \in Requests :
       srv.req[r].duringRun =>
         srv.req[r].response = 409 /\ srv.req[r].pc = "done"

----------------------------------------------------------------------------
(* SpecEntry: the three ways into the pipeline, each behind detectProject:   *)
(* the CLI run (part_009:29-175), POST /api/generate and POST /api/preview   *)
(* (part_006:181-260)                                                        *)

EntryPackageJsons ==
  {NestPackageJson,
   PackageJsonFile(2, <<Dep("@nestjs/core", "^11.0.0")>>, <<>>),
   PackageJsonFile(2, <<Dep("@nestjs/common", "^11.0.0")>>, <<>>),
   PackageJsonFile(2, <<>>, <<Dep("@nestjs/common", "^11.0.0"),
                              Dep("@nestjs/core", "^11.0.0")>>),
   InvalidJson, Absent}

EntryDisks ==
  {[p \in AllPaths |->
      CASE p \in present -> Text("old")
        [] p = AppModulePath -> a
        [] p = MainTsPath -> m
        [] p = PackageJsonPath -> j
        [] OTHER -> Absent] :
     present \in {{}, {AuthModuleTs}, {DotEnv}},
     a \in {AppModuleFile(<<[mod |-> "@nestjs/common", names |-> <<"Module">>]>>,
                          TRUE, TRUE, "object", "assignment", "array", <<>>), Absent},
     m \in {MainTsFile(MainTsImports, "block", <<StmtCreate, StmtListen>>, <<>>), Absent},
     j \in EntryPackageJsons}

EntryConfigs == {c \in PipelineConfigs : ~c.rbac}

InitEntry ==
  /\ fs \in EntryDisks
  /\ dirs \in {d \in SUBSET AllDirs : DirsConsistent(fs, d)}
  /\ writtenFiles = <<>> /\ backups = EmptyMap
  /\ pipe \in [pc : {"detect"}, entry : {"cli", "generate", "preview"}, yes : BOOLEAN,
               config : EntryConfigs, overwrite : {FALSE}, authorized : {FALSE},
               gen : {None}, errors : {<<>>}, warnings : {<<>>}, events : {<<>>},
               result : {None}]
  /\ pipe.entry # "cli" => ~pipe.yes
  /\ snap = [fs0 |-> fs, dirs0 |-> dirs, sidecars |-> {}]
  /\ call = [op |-> "new"]
  /\ upd = Unused /\ srv = Unused /\ mrg = Unused

\* the dry run reporting every entry as new
preview_always_new(disk, config, missingTemplates) ==
  LET plan == buildGenerationPlan(config) IN
  IF \E i \in 1..Len(plan) : plan[i] \in missingTemplates
    THEN [threw |-> TRUE]
    ELSE [threw |-> FALSE,
          files |-> [i \in 1..Len(plan) |->
                       [path |-> plan[i], content |-> Rendered, isNew |-> TRUE]],
          totalFiles |-> Len(plan) + 3]

\* GuiOrchestrator.preview (orchestrator.ts:60-91): each plan entry rendered
\* and looked up on the disk; a template that fails to render rejects the call
preview(disk, config, missingTemplates) ==
  LET plan == buildGenerationPlan(config) IN
  IF \E i \in 1..Len(plan) : plan[i] \in missingTemplates
    THEN [threw |-> TRUE]
    ELSE [threw |-> FALSE,
          files |-> [i \in 1..Len(plan) |->
                       [path |-> plan[i], content |-> Rendered,
                        isNew |-> ~pathExists(disk, plan[i])]],
          totalFiles |-> Len(plan) + 3]

\* detectProject resolves.  bodyOverwrite: the overwrite field of the request
\* body; confirmed: the answer to the CLI's overwrite prompt.  pipe.authorized
\* records what the user said: the prompt confirmed, or overwrite=true sent.
E_detect(bodyOverwrite, confirmed, missingTemplates) ==
  /\ pipe.pc = "detect"
  /\ LET projectInfo == detectProject(fs, dirs) IN
       pipe' =
         IF ~projectInfo.isValid
           THEN [pipe EXCEPT !.pc = "rejected", !.errors = projectInfo.errors]
         ELSE IF pipe.entry = "preview"
           THEN [pipe EXCEPT !.pc = "previewed",
                             !.result = preview(fs, pipe.config, missingTemplates)]
         ELSE IF pipe.entry = "cli"
           THEN IF projectInfo.authExists /\ (pipe.yes \/ ~confirmed)
                  THEN [pipe EXCEPT !.pc = "cancelled"]
                  ELSE [pipe EXCEPT !.pc = "generate",
                                    !.overwrite = projectInfo.authExists,
                                    !.authorized = projectInfo.authExists /\ confirmed]
         ELSE [pipe EXCEPT !.pc = "generate",
                           !.overwrite = bodyOverwrite \/ projectInfo.authExists,
                           !.authorized = bodyOverwrite]
  /\ call' = [op |-> "detectProject"]
  /\ UNCHANGED <<fs, dirs, writtenFiles, backups, snap, upd, srv, mrg>>

NextEntry ==
  \/ \E bodyOverwrite \in BOOLEAN, confirmed \in BOOLEAN, m \in MissingTemplates :
        E_detect(bodyOverwrite, confirmed, m)
  \/ NextPipeline

SpecEntry == InitEntry /\ [][NextEntry]_vars

\* what the spec counts as an invalid project
InvalidProject(disk) ==
  \/ disk[PackageJsonPath] = Absent
  \/ disk[PackageJsonPath] = InvalidJson
  \/ "@nestjs/core" \notin Keys(disk[PackageJsonPath].dependencies)
  \/ "@nestjs/common" \notin Keys(disk[PackageJsonPath].dependencies)
  \/ disk[AppModulePath] = Absent

\* C20: on an invalid project no entry point starts the pipeline: no file or
\* directory is created, changed, backed up or deleted.
C20_InvalidProjectNeverStarts ==
  InvalidProject(snap.fs0) =>
    /\ pipe.pc \in {"detect", "rejected"}
    /\ fs = snap.fs0 /\ dirs = snap.dirs0
    /\ snap.sidecars = {} /\ writtenFiles = <<>> /\ backups = EmptyMap
    /\ pipe.events = <<>>

C20_Witness ==
  /\ pipe.pc = "rejected"
  /\ pipe.entry = "generate"
  /\ snap.fs0[PackageJsonPath] = NestPackageJson
  /\ snap.fs0[AppModulePath] = Absent
  /\ snap.fs0[MainTsPath] # Absent

\* C21: a file that was at a plan output path before the run has other content
\* only if the user authorized overwriting for the run: the CLI prompt
\* confirmed, or overwrite=true in the generate request.
C21_OverwriteOnlyIfAuthorized ==
  \A p \in PlanFiles :
     (snap.fs0[p] # Absent /\ fs[p] # snap.fs0[p]) => pipe.authorized


----------------------------------------------------------------------------
(* SpecListener: GuiOrchestrator.generate with a 'progress' listener that    *)
(* may throw.  emitProgress (orchestrator.ts:52-55) is this.emit('progress', *)
(* event): the listeners run inside the emitting call, and what a listener   *)
(* throws is thrown by emitProgress at the place of the call.               *)

ListenerFaults == {"none", "failPartial"}

\* what the run meets apart from its listeners: the templates that fail to
\* render, each updater's save, the package manager
ListenerEnvs ==
  [missing : MissingTemplates, app : ListenerFaults, main : ListenerFaults,
   pkg : ListenerFaults, installed : BOOLEAN]

ListenerDisks ==
  {w \in PipelineDisks :
     /\ \A p \in PlanFiles : w[p] # Absent => p = AuthModuleTs
     /\ w[AppModulePath] = AppModuleFile(<<[mod |-> "@nestjs/common", names |-> <<"Module">>]>>,
                                         TRUE, TRUE, "object", "assignment", "array", <<>>)
     /\ w[MainTsPath] \in {MainTsFile(MainTsImports, "block", <<StmtCreate, StmtListen>>, <<>>),
                           Absent}}

InitListener ==
  /\ fs \in ListenerDisks
  /\ dirs \in {d \in SUBSET AllDirs : DirsConsistent(fs, d)}
  /\ writtenFiles = <<>> /\ backups = EmptyMap
  /\ pipe \in [pc : {"generate"}, config : EntryConfigs, overwrite : BOOLEAN,
               env : ListenerEnvs,
               gen : {None}, errors : {<<>>}, warnings : {<<>>}, events : {<<>>},
               result : {None}]
  /\ snap = [fs0 |-> fs, dirs0 |-> dirs, sidecars |-> {}]
  /\ call = [op |-> "new"]
  /\ upd = Unused /\ srv = Unused /\ mrg = Unused

StepKind(step) ==
  CASE step = "ast-app-module" -> "app"
    [] step = "ast-main-ts" -> "main"
    [] step = "package-json" -> "pkg"

\* the listener throws on a step's 'started' event: every such emitProgress is
\* outside the step's try block (orchestrator.ts:102,113,128,142,158), so
\* generate rejects there
L_startedThrows ==
  /\ pipe.pc \in {"generate", "ast-app-module", "ast-main-ts", "package-json", "install-deps"}
  /\ pipe' = [pipe EXCEPT !.pc = "threw",
                          !.events = Append(@, Event(pipe.pc, "started"))]
  /\ call' = [op |-> "listener"]
  /\ UNCHANGED <<fs, dirs, writtenFiles, backups, snap, upd, srv, mrg>>

\* the listener throws on step 1's outcome event; neither emitProgress is in a
\* try block (orchestrator.ts:107,110)
L_generateOutcomeThrows ==
  /\ pipe.pc = "generate"
  /\ \E r \in {generate([fs |-> fs, dirs |-> dirs, writtenFiles |-> <<>>,
                            backups |-> EmptyMap],
                           pipe.config, pipe.overwrite, pipe.env.missing)} :
        /\ SetWorld(r.w)
        /\ pipe' = [pipe EXCEPT
              !.pc = "threw",
              !.events = @ \o <<Event("generate", "started"),
                                Event("generate", IF r.result.success THEN "completed"
                                                  ELSE "failed")>>]
  /\ call' = [op |-> "listener"]
  /\ UNCHANGED <<snap, upd, srv, mrg>>

\* the listener throws on the outcome event of an updater step.  The
\* 'completed' emitProgress is inside the try (orchestrator.ts:119,134,148): its
\* throw is caught as the step's failure, after the file was updated.  The
\* catch block's own emitProgress is not protected: when the listener throws
\* on that one (again, or because update threw), generate rejects.
L_updaterOutcomeThrows(again) ==
  /\ pipe.pc \in {"ast-app-module", "ast-main-ts", "package-json"}
  /\ \E s \in {updateAndCleanup(fs, StepKind(pipe.pc), pipe.config,
                                pipe.env[StepKind(pipe.pc)])} :
     LET started == Append(pipe.events, Event(pipe.pc, "started"))
         msg == Text("listener error") IN
       /\ fs' = s.fs
       /\ IF s.u.pc # "done"
            THEN pipe' = [pipe EXCEPT
                   !.pc = "threw",
                   !.events = Append(started,
                       Event(pipe.pc, IF pipe.pc = "ast-main-ts" THEN "warning" ELSE "failed"))]
          ELSE IF again
            THEN pipe' = [pipe EXCEPT
                   !.pc = "threw",
                   !.events = started \o <<Event(pipe.pc, "completed"),
                       Event(pipe.pc, IF pipe.pc = "ast-main-ts" THEN "warning" ELSE "failed")>>]
          ELSE IF pipe.pc = "ast-main-ts"
            THEN pipe' = [pipe EXCEPT
                   !.pc = "package-json",
                   !.warnings = Append(@, Text("Could not auto-update main.ts")),
                   !.events = started \o <<Event(pipe.pc, "completed"),
                                           Event(pipe.pc, "warning")>>]
          ELSE pipe' = [pipe EXCEPT
                   !.pc = "returned",
                   !.errors = Append(@, msg),
                   !.events = started \o <<Event(pipe.pc, "completed"),
                                           Event(pipe.pc, "failed")>>,
                   !.result = GenerateResult(FALSE, pipe.gen.filesCreated,
                                pipe.gen.filesSkipped, Append(pipe.errors, msg),
                                pipe.warnings)]
  /\ call' = [op |-> "listener"]
  /\ UNCHANGED <<dirs, writtenFiles, backups, snap, upd, srv, mrg>>

\* the listener throws on install-deps' outcome event (orchestrator.ts:163,166)
L_installOutcomeThrows(again) ==
  /\ pipe.pc = "install-deps"
  /\ LET started == Append(pipe.events, Event("install-deps", "started"))
         warnings == Append(pipe.warnings, Text("Failed to install dependencies")) IN
       IF ~pipe.env.installed
         THEN pipe' = [pipe EXCEPT
                !.pc = "threw",
                !.events = Append(started, Event("install-deps", "warning"))]
       ELSE IF again
         THEN pipe' = [pipe EXCEPT
                !.pc = "threw",
                !.events = started \o <<Event("install-deps", "completed"),
                                        Event("install-deps", "warning")>>]
       ELSE pipe' = [pipe EXCEPT
                !.pc = "returned",
                !.warnings = warnings,
                !.events = started \o <<Event("install-deps", "completed"),
                                        Event("install-deps", "warning")>>,
                !.result = GenerateResult(TRUE, pipe.gen.filesCreated,
                             pipe.gen.filesSkipped, pipe.errors, warnings)]
  /\ call' = [op |-> "listener"]
  /\ UNCHANGED <<fs, dirs, writtenFiles, backups, snap, upd, srv, mrg>>

\* the steps with a listener that returns normally, or none
NextListener ==
  \/ P_generate(pipe.env.missing)
  \/ P_appModule(pipe.env.app)
  \/ P_mainTs(pipe.env.main)
  \/ P_packageJson(pipe.env.pkg)
  \/ P_installDeps(pipe.env.installed)
  \/ L_startedThrows
  \/ L_generateOutcomeThrows
  \/ \E again \in BOOLEAN : L_updaterOutcomeThrows(again)
  \/ \E again \in BOOLEAN : L_installOutcomeThrows(again)

SpecListener == InitListener /\ [][NextListener]_vars

\* generate (orchestrator.ts:96-178) with no listener attached, as a function
\* of the project and of what the run meets: the files it leaves and the
\* success flag it returns
runPipeline(disk, d, config, overwrite, env) ==
  Only({
    IF ~g.result.success THEN [fs |-> g.w.fs, success |-> FALSE]
    ELSE Only({
      IF a.u.pc # "done" THEN [fs |-> a.fs, success |-> FALSE]
      ELSE Only({
        Only({[fs |-> p.fs, success |-> p.u.pc = "done"] :
                p \in {updateAndCleanup(m.fs, "pkg", config, env.pkg)}}) :
          m \in {updateAndCleanup(a.fs, "main", config, env.main)}}) :
        a \in {updateAndCleanup(g.w.fs, "app", config, env.app)}}) :
      g \in {generate([fs |-> disk, dirs |-> d, writtenFiles |-> <<>>,
                        backups |-> EmptyMap], config, overwrite, env.missing)}})

\* C25: preview is a dry run.  When the preview request has been served, every
\* file and directory of the project is as before the request and no sidecar
\* was created; and the answer lists the plan's entries in order, each with
\* isNew true exactly when no file is at its output path.
C25_PreviewIsDryRun ==
  pipe.pc = "previewed" =>
    /\ fs = snap.fs0 /\ dirs = snap.dirs0 /\ snap.sidecars = {}
    /\ writtenFiles = <<>> /\ backups = EmptyMap
    /\ ~pipe.result.threw =>
         LET plan == buildGenerationPlan(pipe.config) IN
         /\ Len(pipe.result.files) = Len(plan)
         /\ \A i \in 1..Len(plan) :
              /\ pipe.result.files[i].path = plan[i]
              /\ pipe.result.files[i].isNew <=> (snap.fs0[plan[i]] = Absent)

C25_Witness ==
  /\ pipe.pc = "previewed"
  /\ ~pipe.result.threw
  /\ \E i, j \in 1..Len(pipe.result.files) :
        /\ pipe.result.files[i].isNew /\ ~pipe.result.files[j].isNew
        /\ fs[pipe.result.files[j].path] = Text("old")

\* C24: a run of generate ends as the run on the same project, with the same
\* inputs and no listener attached ends: it returns, with the same success
\* flag, and leaves the same file contents, whatever the progress listeners
\* did when called.
C24_ListenersDoNotInfluence ==
  pipe.pc \in {"returned", "threw"} =>
    \E ref \in {runPipeline(snap.fs0, snap.dirs0, pipe.config, pipe.overwrite, pipe.env)} :
      /\ pipe.pc = "returned"
      /\ pipe.result.success = ref.success
      /\ fs = ref.fs


----------------------------------------------------------------------------
(* SpecPlan: Generator.buildGenerationPlan (generator.ts:93-191) entry by    *)
(* entry.  An output path is the directory it is relative to (the            *)
(* configuration's sourceRoot, or the project root ".") and the rest.        *)

SourceRoots == {"src", "app"}

PlanConfigs ==
  [sourceRoot : SourceRoots, orm : Orms, refreshTokens : BOOLEAN, rbac : BOOLEAN,
   resetPassword : BOOLEAN, unitTests : BOOLEAN]

FileSpec(template, dir, rel) == [template |-> template, output |-> [dir |-> dir, rel |-> rel]]

\* the refresh-token entity planned whenever refresh tokens are on
ormFiles_refresh_any_orm(config) ==
  LET sr == config.sourceRoot IN
  (IF config.orm = "typeorm"
     THEN <<FileSpec("entities/user.entity.typeorm.hbs", sr, "users/entities/user.entity.ts")>>
   ELSE IF config.orm = "prisma"
     THEN <<FileSpec("prisma/prisma.service.ts.hbs", sr, "prisma/prisma.service.ts"),
            FileSpec("prisma/prisma.module.ts.hbs", sr, "prisma/prisma.module.ts"),
            FileSpec("prisma/schema.prisma.additions.hbs", ".", "prisma-schema-additions.prisma")>>
   ELSE <<>>)
  \o (IF config.refreshTokens
        THEN <<FileSpec("entities/refresh-token.entity.typeorm.hbs", sr,
                        "users/entities/refresh-token.entity.ts")>>
        ELSE <<>>)

\* the refresh-token entity pushed with the output path of the user entity
ormFiles_same_output(config) ==
  LET sr == config.sourceRoot IN
  IF config.orm = "typeorm"
    THEN <<FileSpec("entities/user.entity.typeorm.hbs", sr, "users/entities/user.entity.ts")>>
         \o (IF config.refreshTokens
               THEN <<FileSpec("entities/refresh-token.entity.typeorm.hbs", sr,
                               "users/entities/user.entity.ts")>>
               ELSE <<>>)
  ELSE IF config.orm = "prisma"
    THEN <<FileSpec("prisma/prisma.service.ts.hbs", sr, "prisma/prisma.service.ts"),
           FileSpec("prisma/prisma.module.ts.hbs", sr, "prisma/prisma.module.ts"),
           FileSpec("prisma/schema.prisma.additions.hbs", ".", "prisma-schema-additions.prisma")>>
  ELSE <<>>

\* generator.ts:151-168
ormFiles(config) ==
  LET sr == config.sourceRoot IN
  IF config.orm = "typeorm"
    THEN <<FileSpec("entities/user.entity.typeorm.hbs", sr, "users/entities/user.entity.ts")>>
         \o (IF config.refreshTokens
               THEN <<FileSpec("entities/refresh-token.entity.typeorm.hbs", sr,
                               "users/entities/refresh-token.entity.ts")>>
               ELSE <<>>)
  ELSE IF config.orm = "prisma"
    THEN <<FileSpec("prisma/prisma.service.ts.hbs", sr, "prisma/prisma.service.ts"),
           FileSpec("prisma/prisma.module.ts.hbs", sr, "prisma/prisma.module.ts"),
           FileSpec("prisma/schema.prisma.additions.hbs", ".", "prisma-schema-additions.prisma")>>
  ELSE <<>>

\* generator.ts:93-191, every entry
generationPlan(config) ==
  LET sr == config.sourceRoot IN
  <<FileSpec("jwt/auth.module.ts.hbs", sr, "auth/auth.module.ts"),
    FileSpec("jwt/auth.service.ts.hbs", sr, "auth/auth.service.ts"),
    FileSpec("jwt/auth.controller.ts.hbs", sr, "auth/auth.controller.ts"),
    FileSpec("jwt/jwt.strategy.ts.hbs", sr, "auth/strategies/jwt.strategy.ts"),
    FileSpec("jwt/local.strategy.ts.hbs", sr, "auth/strategies/local.strategy.ts"),
    FileSpec("jwt/jwt-auth.guard.ts.hbs", sr, "auth/guards/jwt-auth.guard.ts"),
    FileSpec("jwt/local-auth.guard.ts.hbs", sr, "auth/guards/local-auth.guard.ts")>>
  \o (IF config.rbac
        THEN <<FileSpec("rbac/roles.guard.ts.hbs", sr, "auth/guards/roles.guard.ts"),
               FileSpec("rbac/role.enum.ts.hbs", sr, "auth/enums/role.enum.ts"),
               FileSpec("decorators/roles.decorator.ts.hbs", sr,
                        "auth/decorators/roles.decorator.ts")>>
        ELSE <<>>)
  \o <<FileSpec("decorators/public.decorator.ts.hbs", sr, "auth/decorators/public.decorator.ts"),
       FileSpec("decorators/current-user.decorator.ts.hbs", sr,
                "auth/decorators/current-user.decorator.ts"),
       FileSpec("dto/login.dto.ts.hbs", sr, "auth/dto/login.dto.ts"),
       FileSpec("dto/register.dto.ts.hbs", sr, "auth/dto/register.dto.ts"),
       FileSpec("dto/change-password.dto.ts.hbs", sr, "auth/dto/change-password.dto.ts"),
       FileSpec("dto/auth-response.dto.ts.hbs", sr, "auth/dto/auth-response.dto.ts"),
       FileSpec("dto/create-user.dto.ts.hbs", sr, "auth/dto/create-user.dto.ts")>>
  \o (IF config.resetPassword
        THEN <<FileSpec("dto/forgot-password.dto.ts.hbs", sr, "auth/dto/forgot-password.dto.ts"),
               FileSpec("dto/reset-password.dto.ts.hbs", sr, "auth/dto/reset-password.dto.ts")>>
        ELSE <<>>)
  \o <<FileSpec("users/users.module.ts.hbs", sr, "users/users.module.ts"),
       FileSpec("users/users.service.ts.hbs", sr, "users/users.service.ts"),
       FileSpec("users/users.controller.ts.hbs", sr, "users/users.controller.ts")>>
  \o ormFiles(config)
  \o (IF config.unitTests
        THEN <<FileSpec("tests/auth.service.spec.ts.hbs", sr, "auth/auth.service.spec.ts"),
               FileSpec("tests/auth.controller.spec.ts.hbs", sr, "auth/auth.controller.spec.ts")>>
        ELSE <<>>)
  \o <<FileSpec("shared/env.template.hbs", ".", ".env.example"),
       FileSpec("shared/env.hbs", ".", ".env"),
       FileSpec("shared/README.auth.md.hbs", sr, "auth/README.md"),
       FileSpec("shared/main.ts.snippet.hbs", ".", "main.ts.example")>>

InitPlan ==
  /\ mrg \in [config : PlanConfigs, plan : {None}]
  /\ fs = Unused /\ dirs = Unused /\ writtenFiles = Unused /\ backups = Unused
  /\ call = Unused /\ snap = Unused /\ upd = Unused /\ pipe = Unused /\ srv = Unused

PL_buildGenerationPlan ==
  /\ mrg.plan = None
  /\ mrg' = [mrg EXCEPT !.plan = generationPlan(mrg.config)]
  /\ UNCHANGED <<fs, dirs, writtenFiles, backups, call, snap, upd, pipe, srv>>

NextPlan == PL_buildGenerationPlan

SpecPlan == InitPlan /\ [][NextPlan]_vars

\* the output paths of a plan, below sourceRoot or at the project root
Outputs(plan) == {plan[i].output : i \in 1..Len(plan)}

InSourceRoot(config, rel) == [dir |-> config.sourceRoot, rel |-> rel]

\* the files the claim names, each with its condition
ConditionalFiles(config) ==
  [f \in {InSourceRoot(config, "auth/guards/roles.guard.ts"),
          InSourceRoot(config, "auth/enums/role.enum.ts"),
          InSourceRoot(config, "auth/decorators/roles.decorator.ts"),
          InSourceRoot(config, "auth/dto/forgot-password.dto.ts"),
          InSourceRoot(config, "auth/dto/reset-password.dto.ts"),
          InSourceRoot(config, "users/entities/user.entity.ts"),
          InSourceRoot(config, "users/entities/refresh-token.entity.ts"),
          InSourceRoot(config, "prisma/prisma.service.ts"),
          InSourceRoot(config, "prisma/prisma.module.ts"),
          [dir |-> ".", rel |-> "prisma-schema-additions.prisma"],
          InSourceRoot(config, "auth/auth.service.spec.ts"),
          InSourceRoot(config, "auth/auth.controller.spec.ts")} |->
     CASE f.rel \in {"auth/guards/roles.guard.ts", "auth/enums/role.enum.ts",
                     "auth/decorators/roles.decorator.ts"} -> config.rbac
       [] f.rel \in {"auth/dto/forgot-password.dto.ts", "auth/dto/reset-password.dto.ts"} ->
            config.resetPassword
       [] f.rel = "users/entities/user.entity.ts" -> config.orm = "typeorm"
       [] f.rel = "users/entities/refresh-token.entity.ts" ->
            config.orm = "typeorm" /\ config.refreshTokens
       [] f.rel \in {"prisma/prisma.service.ts", "prisma/prisma.module.ts",
                     "prisma-schema-additions.prisma"} -> config.orm = "prisma"
       [] f.rel \in {"auth/auth.service.spec.ts", "auth/auth.controller.spec.ts"} ->
            config.unitTests]

\* every file some configuration with this sourceRoot plans
PlannedBySome(config) ==
  UNION {Outputs(generationPlan(c)) : c \in {d \in PlanConfigs : d.sourceRoot = config.sourceRoot}}

\* C28: the plan built for a configuration holds each conditional file
\* exactly when its condition holds, and every file that is not conditional
\* and that some configuration plans.
C28_ConditionalFilesIffCondition ==
  mrg.plan # None =>
    LET cond == ConditionalFiles(mrg.config) IN
    /\ \A f \in DOMAIN cond : (f \in Outputs(mrg.plan)) <=> cond[f]
    /\ \A f \in PlannedBySome(mrg.config) \ DOMAIN cond : f \in Outputs(mrg.plan)
    /\ Cardinality(PlannedBySome(mrg.config) \ DOMAIN cond) = 21
    /\ DOMAIN cond \subseteq PlannedBySome(mrg.config)

C28_Witness ==
  /\ mrg.plan # None
  /\ mrg.config.orm = "prisma" /\ mrg.config.refreshTokens /\ mrg.config.rbac
  /\ ~mrg.config.resetPassword /\ mrg.config.unitTests
  /\ Len(mrg.plan) = 29


\* C36: no two entries of the plan built for a configuration have the same
\* output path, so one run of generate calls writeFile, and with it
\* createBackup, at most once for a path.
C36_PlanOutputsDistinct ==
  mrg.plan # None =>
    \A i, j \in 1..Len(mrg.plan) : mrg.plan[i].output = mrg.plan[j].output => i = j

C36_Witness ==
  /\ mrg.plan # None
  /\ mrg.config.orm = "typeorm" /\ mrg.config.refreshTokens /\ mrg.config.rbac
  /\ mrg.config.resetPassword /\ mrg.config.unitTests
  /\ Len(mrg.plan) = 30
  /\ Cardinality(Outputs(mrg.plan)) = 30

----------------------------------------------------------------------------
(* SpecPackage: PackageUpdater.update (part_008:21-56) and cleanupBackup     *)
(* run on one package.json, up to MaxPkgUpdates times                        *)

MaxPkgUpdates == 2

ExistingDeps ==
  {Dep("zod", "^3.0.0"), Dep("passport", "^0.6.0"), Dep("typeorm", "^0.2.45")}

PackageJsonFiles ==
  {PackageJsonFile(indent, deps, dev) :
     indent \in {2, 4},
     deps \in {d \in SeqsUpTo(ExistingDeps, 3) :
                 \A i, j \in 1..Len(d) : d[i] = d[j] => i = j},
     dev \in {<<>>, <<Dep("jest", "^29.0.0")>>, <<Dep("@types/bcrypt", "^4.0.0")>>,
              <<Dep("jest", "^29.0.0"), Dep("@types/bcrypt", "^4.0.0")>>}}

PackageConfigs == {c \in Configs : ~c.rbac /\ ~c.autoInstall /\ ~c.refreshTokens}

InitPackage ==
  /\ fs \in {[p \in AllPaths |-> IF p = PackageJsonPath THEN f ELSE Absent] :
               f \in PackageJsonFiles}
  /\ dirs = {}
  /\ writtenFiles = <<>> /\ backups = EmptyMap
  /\ mrg \in [config : PackageConfigs, n : {0}, before : {None}, ok : {<<>>}]
  /\ call = Unused /\ snap = Unused /\ upd = Unused /\ pipe = Unused /\ srv = Unused

\* mrg.before is the manifest before the last update, mrg.ok[i] whether the
\* i-th update returned
K_update(fault) ==
  /\ mrg.n < MaxPkgUpdates
  /\ \E s \in {updateAndCleanup(fs, "pkg", mrg.config, fault)} :
       /\ fs' = s.fs
       /\ mrg' = [mrg EXCEPT !.n = @ + 1, !.before = fs[PackageJsonPath],
                             !.ok = Append(@, s.u.pc = "done")]
  /\ UNCHANGED <<dirs, writtenFiles, backups, call, snap, upd, pipe, srv>>

NextPackage == \E fault \in SaveFaults : K_update(fault)

SpecPackage == InitPackage /\ [][NextPackage]_vars

\* the versions of section now agree with those of section old on keys
SameVersions(keys, old, now) ==
  \A key \in keys : Lookup(now, key) = Lookup(old, key)

\* the tool's list for a section holds in section now
HasToolVersions(fixed, now) ==
  \A i \in 1..Len(fixed) :
    fixed[i].key \in Keys(now) /\ Lookup(now, fixed[i].key) = fixed[i].v

\* C30: after an update that returned, each section of the manifest has every
\* key it had before, with its version when the key is not in the tool's list
\* for the section and with the tool's version when it is; the other fields
\* are as before; and an update that follows one that returned changes
\* nothing.
C30_MergeKeepsAndOverrides ==
  (mrg.n > 0 /\ mrg.ok[mrg.n]) =>
    LET old == mrg.before
        now == fs[PackageJsonPath]
        fixed == getDependencies(mrg.config)
    IN  /\ Keys(old.dependencies) \subseteq Keys(now.dependencies)
        /\ Keys(old.devDependencies) \subseteq Keys(now.devDependencies)
        /\ SameVersions(Keys(old.dependencies) \ Keys(fixed.dependencies),
                        old.dependencies, now.dependencies)
        /\ SameVersions(Keys(old.devDependencies) \ Keys(fixed.devDependencies),
                        old.devDependencies, now.devDependencies)
        /\ HasToolVersions(fixed.dependencies, now.dependencies)
        /\ HasToolVersions(fixed.devDependencies, now.devDependencies)
        /\ now.name = old.name /\ now.scripts = old.scripts
        /\ (mrg.n > 1 /\ mrg.ok[mrg.n - 1]) => now = old

C30_Witness ==
  /\ mrg.n = 2 /\ mrg.ok[1] /\ mrg.ok[2]
  /\ mrg.config.orm = "typeorm" /\ mrg.config.database = "sqlite"
  /\ {"typeorm", "zod", "passport"} \subseteq Keys(mrg.before.dependencies)
  /\ "@types/bcrypt" \in Keys(mrg.before.devDependencies)
  /\ Lookup(fs[PackageJsonPath].dependencies, "typeorm") = "^0.3.20"
  /\ Lookup(fs[PackageJsonPath].dependencies, "zod") = "^3.0.0"
  /\ Lookup(fs[PackageJsonPath].dependencies, "passport") = "^0.7.0"
  /\ Lookup(fs[PackageJsonPath].devDependencies, "@types/bcrypt") = "^5.0.2"
  /\ "jest" \in Keys(fs[PackageJsonPath].devDependencies)


----------------------------------------------------------------------------
(* SpecStray: the pipeline on a project that already holds a file at the    *)
(* ".backup" path of a file the run touches (left by a killed run, or the   *)
(* user's own)                                                              *)

StrayPaths ==
  {Backup(AuthModuleTs), Backup(AppModulePath), Backup(MainTsPath), Backup(PackageJsonPath)}

StrayDisks ==
  {[w EXCEPT ![b] = Text("stray")] : w \in ListenerDisks, b \in StrayPaths}

InitStray ==
  /\ fs \in StrayDisks
  /\ dirs \in {d \in SUBSET AllDirs : DirsConsistent(fs, d)}
  /\ writtenFiles = <<>> /\ backups = EmptyMap
  /\ pipe \in [pc : {"generate"}, config : PipelineConfigs, overwrite : BOOLEAN,
               gen : {None}, errors : {<<>>}, warnings : {<<>>}, events : {<<>>},
               result : {None}]
  /\ snap = [fs0 |-> fs, sidecars |-> {}]
  /\ call = [op |-> "new"]
  /\ upd = Unused /\ srv = Unused /\ mrg = Unused

SpecStray == InitStray /\ [][NextPipeline]_vars

\* C34: a file that was at a ".backup" path before the run is there with the
\* same content when the run has ended, in success or in failure.
C34_ExistingBackupFileKept ==
  pipe.pc = "returned"
    => \A b \in StrayPaths : snap.fs0[b] # Absent => fs[b] = snap.fs0[b]


----------------------------------------------------------------------------
(* SpecWiring: for one configuration, the plan of the Generator and the     *)
(* edits of AppModuleUpdater and MainTsUpdater on the files of sourceRoot   *)

WiringConfigs ==
  [sourceRoot : SourceRoots, orm : Orms, database : Databases, refreshTokens : BOOLEAN,
   rbac : BOOLEAN, resetPassword : {FALSE}, unitTests : {FALSE}, autoInstall : {FALSE}]

WiringAppModules ==
  {AppModuleFile(<<[mod |-> "@nestjs/common", names |-> <<"Module">>]>>,
                 TRUE, TRUE, "object", "assignment", "array", <<>>),
   AppModuleFile(<<[mod |-> "@nestjs/common", names |-> <<"Module">>]>>,
                 TRUE, TRUE, "object", "missing", "none", <<>>),
   AppModuleFile(<<[mod |-> "@nestjs/common", names |-> <<"Module">>],
                   [mod |-> "@nestjs/config", names |-> <<"ConfigModule">>]>>,
                 TRUE, TRUE, "object", "assignment", "array",
                 <<<<"ConfigModule", ".", "forRoot", "(", "isGlobalFalse", ")">>>>)}

InitWiring ==
  /\ mrg \in [config : WiringConfigs, appModule : WiringAppModules,
              mainTs : {MainTsFile(MainTsImports, "block", <<StmtCreate, StmtListen>>, <<>>)},
              plan : {None}, app : {None}, main : {None}]
  /\ fs = Unused /\ dirs = Unused /\ writtenFiles = Unused /\ backups = Unused
  /\ call = Unused /\ snap = Unused /\ upd = Unused /\ pipe = Unused /\ srv = Unused

X_buildGenerationPlan ==
  /\ mrg.plan = None
  /\ mrg' = [mrg EXCEPT !.plan = generationPlan(mrg.config)]
  /\ UNCHANGED <<fs, dirs, writtenFiles, backups, call, snap, upd, pipe, srv>>

X_appModule ==
  /\ mrg.app = None
  /\ mrg' = [mrg EXCEPT !.app = AppModuleUpdater_edit(mrg.appModule, mrg.config)]
  /\ UNCHANGED <<fs, dirs, writtenFiles, backups, call, snap, upd, pipe, srv>>

X_mainTs ==
  /\ mrg.main = None
  /\ mrg' = [mrg EXCEPT !.main = MainTsUpdater_edit(mrg.mainTs)]
  /\ UNCHANGED <<fs, dirs, writtenFiles, backups, call, snap, upd, pipe, srv>>

NextWiring == X_buildGenerationPlan \/ X_appModule \/ X_mainTs

SpecWiring == InitWiring /\ [][NextWiring]_vars

\* The file a relative module specifier names, seen from a file that lies in
\* sourceRoot: the specifier without "./", with ".ts".
RelativeModules ==
  {"./auth/auth.module", "./users/users.module", "./users/entities/user.entity",
   "./users/entities/refresh-token.entity", "./prisma/prisma.module",
   "./auth/guards/jwt-auth.guard"}

ResolvedFile(mod) ==
  CASE mod = "./auth/auth.module" -> "auth/auth.module.ts"
    [] mod = "./users/users.module" -> "users/users.module.ts"
    [] mod = "./users/entities/user.entity" -> "users/entities/user.entity.ts"
    [] mod = "./users/entities/refresh-token.entity" -> "users/entities/refresh-token.entity.ts"
    [] mod = "./prisma/prisma.module" -> "prisma/prisma.module.ts"
    [] mod = "./auth/guards/jwt-auth.guard" -> "auth/guards/jwt-auth.guard.ts"

\* the declarations of section after that section before does not hold as they are
AddedDecls(before, after) == SeqToSet(after) \ SeqToSet(before)

\* every relative module of an added declaration is planned under sourceRoot
ImportsArePlanned(before, after) ==
  \A d \in AddedDecls(before, after) :
    /\ d.mod \in RelativeModules =>
         [dir |-> mrg.config.sourceRoot, rel |-> ResolvedFile(d.mod)] \in Outputs(mrg.plan)

\* The identifiers an entry of the imports array refers to: its leading
\* identifier and the names listed between "[" and "]".
RECURSIVE Bracketed(_, _)
Bracketed(text, inside) ==
  IF text = <<>> THEN {}
  ELSE IF Head(text) = "[" THEN Bracketed(Tail(text), TRUE)
  ELSE IF Head(text) = "]" THEN Bracketed(Tail(text), FALSE)
  ELSE (IF inside /\ IsWord(Head(text)) THEN {Head(text)} ELSE {})
         \cup Bracketed(Tail(text), inside)

EntryIdentifiers(text) ==
  {MatchLeadingWord(text)[i] : i \in 1..Len(MatchLeadingWord(text))} \cup Bracketed(text, FALSE)

\* C35: for every configuration, each relative module that the update of
\* app.module.ts or of main.ts adds an import of names a file of the plan
\* under sourceRoot, and every identifier of an entry appended to the
\* imports array is a name bound by a declaration the update added or
\* completed.
C35_ImportsMatchPlan ==
  /\ (mrg.plan # None /\ mrg.app # None /\ ~mrg.app.threw)
       => ImportsArePlanned(mrg.appModule.imports, mrg.app.file.imports)
  /\ (mrg.plan # None /\ mrg.main # None /\ ~mrg.main.threw)
       => ImportsArePlanned(mrg.mainTs.imports, mrg.main.file.imports)
  /\ (mrg.app # None /\ ~mrg.app.threw)
       => LET old == mrg.appModule.elements
              new == mrg.app.file.elements
              toolModules == {d.mod : d \in SeqToSet(
                                AppModuleUpdater_addImports(<<>>, mrg.config))}
          IN  \A i \in (Len(old) + 1)..Len(new) :
                \A id \in EntryIdentifiers(new[i]) :
                  \E d \in SeqToSet(mrg.app.file.imports) :
                    d.mod \in toolModules /\ InSeq(d.names, id)

C35_Witness ==
  /\ mrg.plan # None /\ mrg.app # None /\ mrg.main # None
  /\ ~mrg.app.threw /\ ~mrg.main.threw
  /\ mrg.config.orm = "typeorm" /\ mrg.config.refreshTokens
  /\ mrg.config.sourceRoot = "app"
  /\ \E i \in 1..Len(mrg.app.file.elements) :
       EntryIdentifiers(mrg.app.file.elements[i]) = {"TypeOrmModule", "User", "RefreshToken"}
  /\ \E d \in AddedDecls(mrg.mainTs.imports, mrg.main.file.imports) :
       d.mod = "./auth/guards/jwt-auth.guard"

----------------------------------------------------------------------------
(* SpecDryRun: GuiOrchestrator.preview and Generator.generate over the whole
   plan of one configuration in one project.  Paths are kept as the code
   builds them: preview lists spec.output, generate writes path.join(root,
   spec.output).  The disk is the set of paths that exist. *)

ProjectRoots == {"/work/api"}

\* path.join(root, output) for a relative output without ".." segments
path_join(root, output) == [root |-> root, output |-> output]

\* orchestrator.ts:60-91; a template that fails to render rejects the call
Orchestrator_preview(config, root, exists, missingTemplates) ==
  LET plan == generationPlan(config) IN
  IF \E i \in 1..Len(plan) : plan[i].template \in missingTemplates
    THEN [threw |-> TRUE]
    ELSE [threw |-> FALSE,
          files |-> [i \in 1..Len(plan) |->
                       [path |-> plan[i].output,
                        isNew |-> path_join(root, plan[i].output) \notin exists]],
          totalFiles |-> Len(plan) + 3]

\* the loop leaving an existing file alone when overwrite is set
Generator_loop_keeps_existing(W, plan, i, root, overwrite, missingTemplates) ==
  LET todo == {k \in i..Len(plan) :
                 \/ plan[k].template \in missingTemplates
                 \/ path_join(root, plan[k].output) \in W.exists /\ ~overwrite}
      last == IF todo = {} THEN Len(plan) ELSE Min(todo) - 1
      kept == SelectSeq([k \in 1..last |-> path_join(root, plan[k].output)],
                        LAMBDA q : q \notin W.exists)
  IN  [w |-> [exists |-> W.exists \cup SeqToSet(kept), writtenFiles |-> W.writtenFiles \o kept],
       threw |-> todo # {}]

\* generator.ts:50-63 with file-writer.ts:19-45: render, then writeFile, for
\* each entry in order, until one of them throws.  No entry of the plan has a
\* condition (generator.ts:93-191), so none is skipped.
RECURSIVE Generator_loop(_, _, _, _, _, _)
Generator_loop(W, plan, i, root, overwrite, missingTemplates) ==
  IF i > Len(plan) THEN [w |-> W, threw |-> FALSE]
  ELSE IF plan[i].template \in missingTemplates THEN [w |-> W, threw |-> TRUE]
  ELSE LET outputPath == path_join(root, plan[i].output) IN
       IF outputPath \in W.exists /\ ~overwrite THEN [w |-> W, threw |-> TRUE]
       ELSE Generator_loop([exists |-> W.exists \cup {outputPath},
                            writtenFiles |-> Append(W.writtenFiles, outputPath)],
                           plan, i + 1, root, overwrite, missingTemplates)

\* generator.ts:41-76 on a new Generator
Generator_generate(config, root, exists, overwrite, missingTemplates) ==
  Only({IF r.threw
          THEN [filesCreated |-> <<>>, filesSkipped |-> <<>>, success |-> FALSE]
          ELSE [filesCreated |-> r.w.writtenFiles, filesSkipped |-> <<>>, success |-> TRUE]
        : r \in {Generator_loop([exists |-> exists, writtenFiles |-> <<>>],
                                generationPlan(config), 1, root, overwrite, missingTemplates)}})

DryRunExisting(root, config) ==
  {{}, {path_join(root, [dir |-> config.sourceRoot, rel |-> "auth/auth.module.ts"])},
       {path_join(root, [dir |-> ".", rel |-> ".env.example"])}}

DryRunMissing == {{}, {"shared/main.ts.snippet.hbs"}}

InitDryRun ==
  /\ mrg \in [config : PlanConfigs, root : ProjectRoots, overwrite : BOOLEAN,
              missing : DryRunMissing, exists : {{}}, preview : {None}, result : {None}]
  /\ fs = Unused /\ dirs = Unused /\ writtenFiles = Unused /\ backups = Unused
  /\ call = Unused /\ snap = Unused /\ upd = Unused /\ pipe = Unused /\ srv = Unused

\* the project as it is found: nothing of the plan, or one file of it
D_found ==
  /\ mrg.preview = None /\ mrg.result = None /\ mrg.exists = {}
  /\ \E e \in DryRunExisting(mrg.root, mrg.config) \ {{}} : mrg' = [mrg EXCEPT !.exists = e]
  /\ UNCHANGED <<fs, dirs, writtenFiles, backups, call, snap, upd, pipe, srv>>

D_preview ==
  /\ mrg.preview = None /\ mrg.result = None
  /\ mrg' = [mrg EXCEPT !.preview =
               Orchestrator_preview(mrg.config, mrg.root, mrg.exists, mrg.missing)]
  /\ UNCHANGED <<fs, dirs, writtenFiles, backups, call, snap, upd, pipe, srv>>

D_generate ==
  /\ mrg.preview # None /\ mrg.result = None
  /\ mrg' = [mrg EXCEPT !.result =
               Generator_generate(mrg.config, mrg.root, mrg.exists, mrg.overwrite, mrg.missing)]
  /\ UNCHANGED <<fs, dirs, writtenFiles, backups, call, snap, upd, pipe, srv>>

NextDryRun == D_found \/ D_preview \/ D_generate

SpecDryRun == InitDryRun /\ [][NextDryRun]_vars

\* C37: for one configuration and one project, the output paths that preview
\* lists are, entry by entry and in the same order, the paths below the project
\* root that a successful generate wrote.
C37_PreviewListsWhatGenerateWrites ==
  (mrg.preview # None /\ mrg.result # None /\ mrg.result.success) =>
     /\ ~mrg.preview.threw
     /\ Len(mrg.result.filesCreated) = Len(mrg.preview.files)
     /\ \A i \in 1..Len(mrg.preview.files) :
          mrg.result.filesCreated[i] = path_join(mrg.root, mrg.preview.files[i].path)

C37_Witness ==
  /\ mrg.preview # None /\ mrg.result # None /\ mrg.result.success
  /\ mrg.exists # {} /\ mrg.overwrite
  /\ mrg.config.orm = "prisma" /\ mrg.config.rbac
  /\ Len(mrg.result.filesCreated) = 27
  /\ \E i \in 1..Len(mrg.preview.files) : ~mrg.preview.files[i].isNew

====
